---- MODULE Spec2Model ----
(***************************************************************************)
(* Velt-Core: the VeltEditor commands (src/src/core/VeltEditor.ts) over a  *)
(* CodeMirror document, the custom search highlight field and the bookmark *)
(* field.  A document is a sequence of one-character strings; offsets are  *)
(* 0-based as in the code, so offset p lies between d[p] and d[p+1].       *)
(***************************************************************************)
EXTENDS Integers, Sequences, FiniteSets, TLC

\* ------------------------------------------------------------------ bounds
\* longest document the growing commands may produce
MaxDocLen == 4
\* longest document InitLines draws over its alphabet
MaxInitLen == 2
\* longest document InitRange draws over its alphabet
MaxRangeLen == 3
\* longest content string InitEndings and setContent draw
MaxContentLen == 3
\* longest document InitBookmarks draws
MaxBookmarkLen == 3
\* the longest document a search session starts with
MaxSearchLen == 2
\* the longest document a query is run on
MaxMatchLen == 4
\* the longest document toggleLineComment may produce in SpecComment
MaxCommentLen == 11
\* the tabs ever added, the listeners, and the nesting of notification rounds
MaxTabIds == 3
MaxListeners == 2
MaxDepth == 2

\* --------------------------------------------------------------- characters
NL == "\n"
CR == "\r"
TAB == "\t"
SP == " "

Min2(a, b) == IF a <= b THEN a ELSE b
Max2(a, b) == IF a >= b THEN a ELSE b

\* /\s/ inside one line
isSpace(c) == c \in {SP, TAB}

\* /\w/
isWordChar(c) == c \in {"a", "b", "c", "k", "x", "A", "B", "K", "_"}

\* the Kelvin sign, U+212A, one UTF-16 unit
KELVIN == "U+212A"

\* String.prototype.toLowerCase, character by character
toLowerCase(c) ==
  IF c = "A" THEN "a" ELSE IF c = "B" THEN "b" ELSE IF c \in {"K", KELVIN} THEN "k" ELSE c

\* the case folding of a RegExp with flag i and without flag u: a character
\* is compared by its upper case, and the Kelvin sign is its own upper case
canonicalize(c) ==
  IF c = "a" THEN "A" ELSE IF c = "b" THEN "B" ELSE IF c = "k" THEN "K" ELSE c

\* ----------------------------------------------------------- the document
\* doc.sliceString(from, to)
sliceString(d, from, to) == SubSeq(d, from + 1, to)

\* doc.lines
docLines(d) == 1 + Cardinality({i \in 1..Len(d) : d[i] = NL})

\* index in d of the k-th line break
breakIndex(d, k) ==
  CHOOSE i \in 1..Len(d) : d[i] = NL /\ Cardinality({j \in 1..i : d[j] = NL}) = k

\* doc.line(n).from, doc.line(n).to, doc.line(n).text
lineFrom(d, n) == IF n = 1 THEN 0 ELSE breakIndex(d, n - 1)
lineTo(d, n) == IF n = docLines(d) THEN Len(d) ELSE breakIndex(d, n) - 1
lineText(d, n) == sliceString(d, lineFrom(d, n), lineTo(d, n))

\* doc.lineAt(pos).number
lineAt(d, pos) == 1 + Cardinality({i \in 1..pos : d[i] = NL})

\* lines.join('\n')
RECURSIVE join(_)
join(ls) ==
  IF Len(ls) = 0 THEN <<>>
  ELSE IF Len(ls) = 1 THEN ls[1]
  ELSE ls[1] \o <<NL>> \o join(Tail(ls))

\* the texts of lines a..b
linesOf(d, a, b) == [k \in 1..(b - a + 1) |-> lineText(d, a + k - 1)]

\* EditorState.toText: an inserted string is split at \r\n, \r or \n and
\* stored as lines, so the document never holds a carriage return
RECURSIVE toText(_)
toText(s) ==
  IF Len(s) = 0 THEN <<>>
  ELSE IF s[1] = CR /\ Len(s) >= 2 /\ s[2] = NL THEN <<NL>> \o toText(SubSeq(s, 3, Len(s)))
  ELSE IF s[1] = CR THEN <<NL>> \o toText(Tail(s))
  ELSE <<s[1]>> \o toText(Tail(s))

\* one change of a transaction: replace [from, to) by insert; old is the text
\* the change replaces
change(d, from, to, insert) ==
  [from |-> from, to |-> to, insert |-> insert, old |-> sliceString(d, from, to)]

\* the document after a transaction's changes (ascending, disjoint, in the
\* coordinates of the old document)
RECURSIVE applyChanges(_, _)
applyChanges(d, cs) ==
  IF Len(cs) = 0 THEN d
  ELSE LET c == cs[Len(cs)]
       IN applyChanges(sliceString(d, 0, c.from) \o toText(c.insert) \o sliceString(d, c.to, Len(d)),
                       SubSeq(cs, 1, Len(cs) - 1))

\* ChangeSet.mapPos(pos, assoc)
RECURSIVE mapPosFrom(_, _, _, _, _)
mapPosFrom(cs, i, pos, assoc, delta) ==
  IF i > Len(cs) THEN pos + delta
  ELSE LET c == cs[i]
           len == c.to - c.from
           ins == Len(toText(c.insert))
       IN IF pos < c.from THEN pos + delta
          ELSE IF c.to > pos \/ (c.to = pos /\ assoc < 0 /\ len = 0)
               THEN (IF pos = c.from \/ assoc < 0 THEN c.from + delta ELSE c.from + delta + ins)
               ELSE mapPosFrom(cs, i + 1, pos, assoc, delta + ins - len)

mapPos(cs, pos, assoc) == mapPosFrom(cs, 1, pos, assoc, 0)

\* --------------------------------------------------------------- the state
VARIABLES
  doc,              \* view.state.doc, as doc.toString() gives it
  selection,        \* view.state.selection.main: [anchor, head]
  currentLanguage,  \* VeltEditor.currentLanguage
  searchQuery,      \* the query held by CodeMirror's search state
  decorations,      \* the customSearchHighlight field: marks [from, to, current]
  bookmarks,        \* the bookmarkState field: a set of line numbers
  hung,             \* a loop of the last call never ends
  loaded,           \* the content string last handed to the editor
  last              \* what the last call did: its dispatches, changes, result

\* the TabManager
VARIABLES
  tabs,             \* TabManager.tabs: the tabs in the order of the map
  activeTabId,      \* TabManager.activeTabId, NoTab for null
  listeners,        \* TabManager.listeners, in the order of the set
  nextId,           \* the ids crypto.randomUUID() has handed out so far
  rounds,           \* the notification rounds and callbacks now on the call stack
  tabCall           \* the last TabManager method entered, its tabId, the active id it found

editorVars == <<doc, selection, currentLanguage, searchQuery, decorations, bookmarks, hung, loaded, last>>

tabVars == <<tabs, activeTabId, listeners, nextId, rounds, tabCall>>

vars == <<editorVars, tabVars>>

\* null
NoTab == 0

called(op, tabId) == [op |-> op, tabId |-> tabId, activeBefore |-> activeTabId]

\* a TabManager just constructed
newTabManager ==
  /\ tabs = <<>>
  /\ activeTabId = NoTab
  /\ listeners = <<>>
  /\ nextId = 0
  /\ rounds = <<>>
  /\ tabCall = called("constructor", NoTab)

selFrom == Min2(selection.anchor, selection.head)
selTo == Max2(selection.anchor, selection.head)
selEmpty == selection.anchor = selection.head

cursorAt(p) == [anchor |-> p, head |-> p]
range(a, h) == [anchor |-> a, head |-> h]

noQuery == [search |-> <<>>, caseSensitive |-> FALSE, regexp |-> FALSE, wholeWord |-> FALSE]
noResult == [count |-> 0, currentIndex |-> 0, ending |-> ""]

\* the record of a call: dispatched counts its view.dispatch calls, sel is the
\* selection the dispatch asked for, newLen the length of the document the
\* changes produce
callRecord(op, n, threw, cs, selGiven, sel, newLen, res) ==
  [op |-> op, dispatched |-> n, threw |-> threw, changes |-> cs,
   selGiven |-> selGiven, sel |-> sel, newLen |-> newLen, result |-> res]

\* -------------------------------------------------------- the state fields
\* customSearchHighlight.update without a setCustomSearch effect:
\* decorations.map(tr.changes).  A mark is dropped when a deletion spans its
\* start or when it maps to an empty range; text inserted inside it widens it.
mapDecorations(decos, cs) ==
  LET spansDel(pos) == \E i \in 1..Len(cs) : cs[i].from < pos /\ cs[i].to > pos
      moved(m) == [from |-> mapPos(cs, m.from, 1), to |-> mapPos(cs, m.to, -1), current |-> m.current]
  IN {moved(m) : m \in {x \in decos : ~spansDel(x.from) /\ moved(x).from < moved(x).to}}

\* the line numbers are kept as they are
keepBookmarks(bm, newDoc) == bm

\* bookmarkState.update, the part before the effects: every line number is
\* looked up again in the new document, clamped to its line count
remapBookmarks(bm, newDoc) == {lineAt(newDoc, lineFrom(newDoc, Min2(l, docLines(newDoc)))) : l \in bm}

\* a toggle that only ever adds the line
toggleBookmarkAdding(bm, newDoc, line) == remapBookmarks(bm, newDoc) \cup {line}

\* bookmarkState.update with a toggleBookmarkEffect
toggleBookmarkIn(bm, newDoc, line) ==
  LET nb == remapBookmarks(bm, newDoc)
  IN IF line \in nb THEN nb \ {line} ELSE nb \cup {line}

\* SelectionRange.map of a transaction that names no selection
mapSelection(sel, cs) ==
  IF sel.anchor = sel.head THEN cursorAt(mapPos(cs, sel.anchor, -1))
  ELSE IF sel.anchor < sel.head
       THEN range(mapPos(cs, sel.anchor, 1), mapPos(cs, sel.head, -1))
       ELSE range(mapPos(cs, sel.anchor, -1), mapPos(cs, sel.head, 1))

\* ------------------------------------------------------------ view.dispatch
\* a call that returns before any dispatch
noDispatch(op, res) ==
  /\ last' = callRecord(op, 0, FALSE, <<>>, FALSE, cursorAt(0), Len(doc), res)
  /\ UNCHANGED <<tabVars, doc, selection, currentLanguage, searchQuery, decorations, bookmarks, hung, loaded>>

\* a call that throws before its dispatch (doc.lineAt of an offset outside
\* the document, or a change range outside it)
raises(op) ==
  /\ last' = callRecord(op, 0, TRUE, <<>>, FALSE, cursorAt(0), Len(doc), noResult)
  /\ UNCHANGED <<tabVars, doc, selection, currentLanguage, searchQuery, decorations, bookmarks, hung, loaded>>

\* the dispatch is refused: the transaction's selection check throws a
\* RangeError and the state is not replaced
rejected(op, cs, sel) ==
  /\ last' = callRecord(op, 1, TRUE, cs, TRUE, sel, Len(applyChanges(doc, cs)), noResult)
  /\ UNCHANGED <<tabVars, doc, selection, currentLanguage, searchQuery, decorations, bookmarks, hung, loaded>>

\* the transaction is applied: document, selection and both fields move
applied(op, cs, selGiven, sel) ==
  LET nd == applyChanges(doc, cs)
  IN /\ doc' = nd
     /\ selection' = sel
     /\ decorations' = mapDecorations(decorations, cs)
     /\ bookmarks' = remapBookmarks(bookmarks, nd)
     /\ last' = callRecord(op, 1, FALSE, cs, selGiven, sel, Len(nd), noResult)
     /\ UNCHANGED <<tabVars, currentLanguage, searchQuery, hung, loaded>>

\* view.dispatch({changes, selection}).  A selection that ends past the new
\* document is refused with a RangeError.  An offset below 0 is not named by
\* that check: the editor may take it or fail on it, so both are allowed.
dispatch(op, cs, sel) ==
  LET nd == applyChanges(doc, cs)
  IN IF Max2(sel.anchor, sel.head) > Len(nd) THEN rejected(op, cs, sel)
     ELSE IF Min2(sel.anchor, sel.head) < 0 THEN rejected(op, cs, sel) \/ applied(op, cs, TRUE, sel)
     ELSE applied(op, cs, TRUE, sel)

\* view.dispatch({changes}): the selection is mapped through the changes
dispatchChanges(op, cs) == applied(op, cs, FALSE, mapSelection(selection, cs))

\* ---------------------------------------------------------- string helpers
startsWith(t, p) == Len(t) >= Len(p) /\ SubSeq(t, 1, Len(p)) = p

\* t.indexOf(p, pos): the least offset i >= pos where p occurs, or -1
indexOf(t, p, pos) ==
  LET hits == {i \in pos..(Len(t) - Len(p)) : SubSeq(t, i + 1, i + Len(p)) = p}
  IN IF hits = {} THEN -1 ELSE CHOOSE i \in hits : \A j \in hits : i <= j

\* ------------------------------------------------------------------ search
\* A regular expression is a sequence of atoms: a character, or a character
\* under a star.  The patterns of the model use no other operator.
RECURSIVE atomsOf(_)
atomsOf(p) ==
  IF Len(p) = 0 THEN <<>>
  ELSE IF Len(p) >= 2 /\ p[2] = "*"
       THEN <<[c |-> p[1], star |-> TRUE]>> \o atomsOf(SubSeq(p, 3, Len(p)))
       ELSE <<[c |-> p[1], star |-> FALSE]>> \o atomsOf(Tail(p))

\* new RegExp(p) throws on a star with nothing to repeat
validRegExp(p) == \A i \in 1..Len(p) : p[i] = "*" => (i > 1 /\ p[i - 1] # "*")

\* escapeRegExp: every character of the text stands for itself
escapeRegExp(t) == [i \in 1..Len(t) |-> [c |-> t[i], star |-> FALSE]]

\* the RegExp a query is compiled to: regexp first, then whole word, then
\* the escaped literal; flag i unless caseSensitive
regexOf(q) ==
  IF q.regexp
  THEN [valid |-> validRegExp(q.search), atoms |-> atomsOf(q.search), bounded |-> FALSE,
        ignoreCase |-> ~q.caseSensitive]
  ELSE [valid |-> TRUE, atoms |-> escapeRegExp(q.search), bounded |-> q.wholeWord,
        ignoreCase |-> ~q.caseSensitive]

sameChar(rx, a, b) == IF rx.ignoreCase THEN canonicalize(a) = canonicalize(b) ELSE a = b

\* \b at offset i of text
wordBoundary(text, i) ==
  (i >= 1 /\ isWordChar(text[i])) # (i < Len(text) /\ isWordChar(text[i + 1]))

\* the length of the run of character c at offset pos
runLength(rx, c, text, pos) ==
  LET stops == {j \in (pos + 1)..Len(text) : ~sameChar(rx, text[j], c)}
  IN IF stops = {} THEN Len(text) - pos
     ELSE (CHOOSE j \in stops : \A k \in stops : j <= k) - 1 - pos

\* where a match of atoms k.. that starts at offset pos ends, or -1; a star
\* takes the longest run that lets the rest match
RECURSIVE matchAtoms(_, _, _, _)
matchAtoms(rx, k, text, pos) ==
  IF k > Len(rx.atoms) THEN (IF rx.bounded /\ ~wordBoundary(text, pos) THEN -1 ELSE pos)
  ELSE LET a == rx.atoms[k]
       IN IF ~a.star
          THEN IF pos < Len(text) /\ sameChar(rx, text[pos + 1], a.c)
               THEN matchAtoms(rx, k + 1, text, pos + 1)
               ELSE -1
          ELSE LET fits == {n \in 0..runLength(rx, a.c, text, pos) :
                             matchAtoms(rx, k + 1, text, pos + n) # -1}
               IN IF fits = {} THEN -1
                  ELSE matchAtoms(rx, k + 1, text, pos + (CHOOSE n \in fits : \A j \in fits : n >= j))

matchEnd(rx, text, pos) ==
  IF rx.bounded /\ ~wordBoundary(text, pos) THEN -1 ELSE matchAtoms(rx, 1, text, pos)

\* the offsets from lastIndex on where the expression matches
matchStarts(rx, text, lastIndex) == {i \in lastIndex..Len(text) : matchEnd(rx, text, i) # -1}

least(S) == CHOOSE i \in S : \A j \in S : i <= j

\* regex.exec(text) with flag g: the leftmost match from lastIndex on
exec(rx, text, lastIndex) ==
  LET from == least(matchStarts(rx, text, lastIndex))
  IN [from |-> from, to |-> matchEnd(rx, text, from)]

\* a loop that looks for the next match one character after the start of the
\* last one
RECURSIVE execAllOverlapping(_, _, _)
execAllOverlapping(rx, text, lastIndex) ==
  IF matchStarts(rx, text, lastIndex) = {} THEN <<>>
  ELSE LET m == exec(rx, text, lastIndex)
       IN IF m.to = m.from THEN <<>> ELSE <<m>> \o execAllOverlapping(rx, text, m.from + 1)

\* while ((match = regex.exec(text)) !== null): the matches the loop collects.
\* lastIndex is the end of the last match, so an empty match is found again
\* and again: the loop never ends (execDiverges) and collects nothing more.
RECURSIVE execAll(_, _, _)
execAll(rx, text, lastIndex) ==
  IF matchStarts(rx, text, lastIndex) = {} THEN <<>>
  ELSE LET m == exec(rx, text, lastIndex)
       IN IF m.to = m.from THEN <<>> ELSE <<m>> \o execAll(rx, text, m.to)

RECURSIVE execDiverges(_, _, _)
execDiverges(rx, text, lastIndex) ==
  IF matchStarts(rx, text, lastIndex) = {} THEN FALSE
  ELSE LET m == exec(rx, text, lastIndex)
       IN IF m.to = m.from THEN TRUE ELSE execDiverges(rx, text, m.to)

\* content.match(regex) with flag g: the number of matches; after an empty
\* match the scan moves on by one
RECURSIVE matchCount(_, _, _)
matchCount(rx, text, lastIndex) ==
  IF lastIndex > Len(text) \/ matchStarts(rx, text, lastIndex) = {} THEN 0
  ELSE LET m == exec(rx, text, lastIndex)
       IN 1 + matchCount(rx, text, IF m.to = m.from THEN m.to + 1 ELSE m.to)

lowerCase(t) == [i \in 1..Len(t) |-> toLowerCase(t[i])]

\* the offsets found by the loop pos = indexOf(pattern, pos); pos += length
RECURSIVE indexOfAll(_, _, _)
indexOfAll(text, pattern, pos) ==
  IF indexOf(text, pattern, pos) = -1 THEN <<>>
  ELSE LET at == indexOf(text, pattern, pos)
       IN <<at>> \o indexOfAll(text, pattern, at + Len(pattern))

\* countMatches(searchText, options) on the document's text
countMatches(content, q) ==
  IF q.search = <<>> THEN 0
  ELSE IF q.regexp
  THEN (IF ~validRegExp(q.search) THEN 0 ELSE matchCount(regexOf(q), content, 0))
  ELSE LET searchContent == IF q.caseSensitive THEN content ELSE lowerCase(content)
           searchPattern == IF q.caseSensitive THEN q.search ELSE lowerCase(q.search)
       IN IF q.wholeWord
          THEN matchCount(regexOf([q EXCEPT !.search = searchPattern]), content, 0)
          ELSE Len(indexOfAll(searchContent, searchPattern, 0))

\* the match offsets getCurrentMatchIndex collects
startsOf(ms) == [i \in 1..Len(ms) |-> ms[i].from]

matchPositions(content, q) ==
  IF q.regexp
  THEN startsOf(execAll(regexOf(q), content, 0))
  ELSE LET searchContent == IF q.caseSensitive THEN content ELSE lowerCase(content)
           searchPattern == IF q.caseSensitive THEN q.search ELSE lowerCase(q.search)
       IN IF q.wholeWord
          THEN startsOf(execAll(regexOf([q EXCEPT !.search = searchPattern]), content, 0))
          ELSE indexOfAll(searchContent, searchPattern, 0)

\* a loop of getCurrentMatchIndex never ends
indexDiverges(content, q) ==
  /\ q.search # <<>>
  /\ countMatches(content, q) # 0
  /\ (q.regexp \/ q.wholeWord)
  /\ execDiverges(regexOf(q), content, 0)

\* getCurrentMatchIndex(searchText, options): 1-based; a match ends at its
\* start plus searchText.length
\* a cursor past every match wraps to the first one
firstHitWrapped(hits, n) == IF hits = {} THEN 1 ELSE least(hits)

firstHit(hits, n) == IF hits = {} THEN n ELSE least(hits)

indexAmong(positions, cursorPos, searchText) ==
  firstHit({i \in 1..Len(positions) :
              \/ (cursorPos >= positions[i] /\ cursorPos <= positions[i] + Len(searchText))
              \/ cursorPos < positions[i]},
           Len(positions))

getCurrentMatchIndex(content, cursorPos, q) ==
  IF q.search = <<>> THEN 0
  ELSE IF countMatches(content, q) = 0 THEN 0
  ELSE indexAmong(matchPositions(content, q), cursorPos, q.search)

\* customSearchHighlight.update on a setCustomSearch effect: one mark per
\* match, the marks that hold the cursor are the selected ones
marksOf(matches, cursorPos) ==
  {[from |-> matches[i].from, to |-> matches[i].to,
    current |-> (cursorPos >= matches[i].from /\ cursorPos <= matches[i].to)] : i \in 1..Len(matches)}

\* an update whose catch keeps the marks it had
highlightKeptOnError(text, q, cursorPos) ==
  IF q.search = <<>> THEN {}
  ELSE IF ~regexOf(q).valid THEN decorations
  ELSE marksOf(execAll(regexOf(q), text, 0), cursorPos)

highlightOf(text, q, cursorPos) ==
  IF q.search = <<>> THEN {}
  ELSE IF ~regexOf(q).valid THEN {}
  ELSE marksOf(execAll(regexOf(q), text, 0), cursorPos)

\* the match loop of customSearchHighlight.update never ends
highlightDiverges(text, q) ==
  q.search # <<>> /\ regexOf(q).valid /\ execDiverges(regexOf(q), text, 0)

\* --------------------------------------------- the search commands of CodeMirror
\* SearchQuery.valid
validQuery(q) == q.search # <<>> /\ (~q.regexp \/ validRegExp(q.search))

\* the whole-word test of a match: neither end splits a word
wordTest(text, from, to) ==
  LET before(i) == i >= 1 /\ isWordChar(text[i])
      after(i) == i < Len(text) /\ isWordChar(text[i + 1])
  IN (~before(from) \/ ~after(from)) /\ (~after(to) \/ ~before(to))

\* the matches a cursor over [from, to] can return, overlapping ones included
wholeWords(text, q, ms) ==
  {ms[i] : i \in {j \in 1..Len(ms) : q.wholeWord => wordTest(text, ms[j].from, ms[j].to)}}

cursorMatches(text, q, from, to) ==
  IF q.regexp
  THEN wholeWords(SubSeq(text, 1, to), q, execAll(regexOf(q), SubSeq(text, 1, to), from))
  ELSE LET n == Len(q.search)
           same(i) == IF q.caseSensitive THEN SubSeq(text, i + 1, i + n) = q.search
                      ELSE lowerCase(SubSeq(text, i + 1, i + n)) = lowerCase(q.search)
       IN {[from |-> i, to |-> i + n] : i \in {j \in from..(to - n) :
             same(j) /\ (q.wholeWord => wordTest(text, j, j + n))}}

firstOf(ms) == IF ms = {} THEN {} ELSE {CHOOSE m \in ms : \A x \in ms : m.from <= x.from}
lastOf(ms) == IF ms = {} THEN {} ELSE {CHOOSE m \in ms : \A x \in ms : m.from >= x.from}

\* query.nextMatch(state, curFrom, curTo): the first match after curTo, else
\* the first one of the document's start; a set with at most one match
orElse(found, wrapped) == IF found # {} THEN found ELSE wrapped

nextMatch(text, q, curFrom, curTo) ==
  IF q.regexp
  THEN orElse(firstOf(cursorMatches(text, q, curTo, Len(text))),
              firstOf(cursorMatches(text, q, 0, curFrom)))
  ELSE {m \in orElse(firstOf(cursorMatches(text, q, curTo, Len(text))),
                     firstOf(cursorMatches(text, q, 0, Min2(Len(text), curFrom + Len(q.search))))) :
          ~(m.from = curFrom /\ m.to = curTo)}

\* query.prevMatch(state, curFrom, curTo)
prevMatch(text, q, curFrom, curTo) ==
  IF q.regexp
  THEN orElse(lastOf(cursorMatches(text, q, 0, curFrom)),
              lastOf(cursorMatches(text, q, curTo, Len(text))))
  ELSE {m \in orElse(lastOf(cursorMatches(text, q, 0, curFrom)),
                     lastOf(cursorMatches(text, q, Max2(0, curTo - Len(q.search)), Len(text)))) :
          ~(m.from = curFrom /\ m.to = curTo)}

\* query.matchAll(state): the matches from pos on, none overlapping another
RECURSIVE matchAll(_, _, _)
RECURSIVE matchAllFrom(_, _, _)
matchAll(text, q, pos) == matchAllFrom(text, q, firstOf(cursorMatches(text, q, pos, Len(text))))

matchAllFrom(text, q, first) ==
  IF first = {} THEN <<>>
  ELSE <<CHOOSE x \in first : TRUE>> \o matchAll(text, q, (CHOOSE x \in first : TRUE).to)

\* -------------------------------------------------------- the search methods
searchResult(count, currentIndex) == [noResult EXCEPT !.count = count, !.currentIndex = currentIndex]

\* a dispatch, or the read after it, enters a loop that never ends: the call
\* does not return; the dispatches made before it stay
hangs(op, n, q, decos) ==
  /\ hung' = TRUE
  /\ searchQuery' = q
  /\ decorations' = decos
  /\ last' = callRecord(op, n, FALSE, <<>>, FALSE, selection, Len(doc), noResult)
  /\ UNCHANGED <<tabVars, doc, selection, currentLanguage, bookmarks, loaded>>

\* clearSearch(): one dispatch with both effects
clearSearchAs(op) ==
  /\ searchQuery' = noQuery
  /\ decorations' = {}
  /\ last' = callRecord(op, 1, FALSE, <<>>, FALSE, selection, Len(doc), noResult)
  /\ UNCHANGED <<tabVars, doc, selection, currentLanguage, bookmarks, hung, loaded>>

clearSearch ==
  /\ ~hung
  /\ clearSearchAs("clearSearch")

\* find(searchText, options)
find(q) ==
  /\ ~hung
  /\ IF q.search = <<>> THEN clearSearchAs("find")
     ELSE IF highlightDiverges(doc, q) THEN hangs("find", 2, q, decorations)
     ELSE IF indexDiverges(doc, q) THEN hangs("find", 2, q, highlightOf(doc, q, selFrom))
     ELSE /\ searchQuery' = q
          /\ decorations' = highlightOf(doc, q, selFrom)
          /\ last' = callRecord("find", 2, FALSE, <<>>, TRUE, selection, Len(doc),
                                searchResult(countMatches(doc, q), getCurrentMatchIndex(doc, selFrom, q)))
          /\ UNCHANGED <<tabVars, doc, selection, currentLanguage, bookmarks, hung, loaded>>

\* getSearchInfo()
getSearchInfo ==
  /\ ~hung
  /\ IF searchQuery.search = <<>> THEN noDispatch("getSearchInfo", searchResult(0, 0))
     ELSE IF indexDiverges(doc, searchQuery) THEN hangs("getSearchInfo", 0, searchQuery, decorations)
     ELSE noDispatch("getSearchInfo",
                     searchResult(countMatches(doc, searchQuery),
                                  getCurrentMatchIndex(doc, selFrom, searchQuery)))

\* the selection cmFindNext / cmFindPrevious leave: the match found, or the
\* old selection when there is none
selected(found) ==
  IF found = {} THEN selection
  ELSE range((CHOOSE x \in found : TRUE).from, (CHOOSE x \in found : TRUE).to)

\* updateCustomSearchHighlight(), after a command that made n dispatches and
\* left the selection sel
updateCustomSearchHighlight(op, n, selGiven, sel) ==
     IF searchQuery.search = <<>> THEN noDispatch(op, noResult)
     ELSE IF highlightDiverges(doc, searchQuery)
     THEN /\ hung' = TRUE
          /\ selection' = sel
          /\ last' = callRecord(op, n + 1, FALSE, <<>>, selGiven, sel, Len(doc), noResult)
          /\ UNCHANGED <<tabVars, doc, currentLanguage, searchQuery, decorations, bookmarks, loaded>>
     ELSE /\ selection' = sel
          /\ decorations' = highlightOf(doc, searchQuery, Min2(sel.anchor, sel.head))
          /\ last' = callRecord(op, n + 1, FALSE, <<>>, selGiven, sel, Len(doc), noResult)
          /\ UNCHANGED <<tabVars, doc, currentLanguage, searchQuery, bookmarks, hung, loaded>>

\* cmFindNext / cmFindPrevious, then updateCustomSearchHighlight()
findThen(op, found) ==
  updateCustomSearchHighlight(op, IF found = {} THEN 0 ELSE 1, found # {}, selected(found))

\* findNext()
findNext ==
  /\ ~hung
  /\ selFrom >= 0
  /\ findThen("findNext", IF validQuery(searchQuery) THEN nextMatch(doc, searchQuery, selTo, selTo) ELSE {})

\* findPrevious()
findPrevious ==
  /\ ~hung
  /\ selFrom >= 0
  /\ findThen("findPrevious",
              IF validQuery(searchQuery) THEN prevMatch(doc, searchQuery, selFrom, selFrom) ELSE {})

\* the dispatch of replaceNext / replaceAll: the search state is set by the
\* dispatch before it, which changes nothing else
replaced(op, cs, selGiven, sel) ==
  LET nd == applyChanges(doc, cs)
  IN /\ doc' = nd
     /\ selection' = sel
     /\ decorations' = mapDecorations(decorations, cs)
     /\ bookmarks' = remapBookmarks(bookmarks, nd)
     /\ last' = callRecord(op, 2, FALSE, cs, selGiven, sel, Len(nd), noResult)
     /\ UNCHANGED <<tabVars, currentLanguage, searchQuery, hung, loaded>>

notReplaced(op) ==
  /\ last' = callRecord(op, 1, FALSE, <<>>, FALSE, selection, Len(doc), noResult)
  /\ UNCHANGED <<tabVars, doc, selection, currentLanguage, searchQuery, decorations, bookmarks, hung, loaded>>

\* replace(replaceText): the selected match is replaced when the selection is
\* the next match, and the match after it is selected
replaceNextAt(m, cs, next) ==
  IF m.from = selFrom /\ m.to = selTo
  THEN IF next = {} THEN replaced("replace", cs, FALSE, mapSelection(selection, cs))
       ELSE \E x \in next : replaced("replace", cs, TRUE, mapSelection(range(x.from, x.to), cs))
  ELSE replaced("replace", <<>>, TRUE, range(m.from, m.to))

replace(replaceText) ==
  /\ ~hung
  /\ selFrom >= 0
  /\ IF ~validQuery(searchQuery) \/ nextMatch(doc, searchQuery, selFrom, selFrom) = {}
     THEN notReplaced("replace")
     ELSE \E m \in nextMatch(doc, searchQuery, selFrom, selFrom) :
            replaceNextAt(m, <<change(doc, m.from, m.to, replaceText)>>,
                          nextMatch(doc, searchQuery, m.from, m.to))

\* replaceAll(replaceText)
replaceAll(replaceText) ==
  /\ ~hung
  /\ selFrom >= 0
  /\ IF ~validQuery(searchQuery) \/ matchAll(doc, searchQuery, 0) = <<>>
     THEN notReplaced("replaceAll")
     ELSE \E ms \in {matchAll(doc, searchQuery, 0)} :
          \E cs \in {[i \in 1..Len(ms) |-> change(doc, ms[i].from, ms[i].to, replaceText)]} :
            replaced("replaceAll", cs, FALSE, mapSelection(selection, cs))

\* ------------------------------------------------------------ line commands
duplicateLine ==
  /\ ~hung
  /\ IF selFrom < 0 THEN raises("duplicateLine")
     ELSE LET n == lineAt(doc, selFrom)
              lineTextN == lineText(doc, n)
              insertPos == IF selEmpty THEN lineTo(doc, n) ELSE selTo
              textToInsert == IF selEmpty THEN <<NL>> \o lineTextN
                              ELSE sliceString(doc, selFrom, selTo)
          IN /\ Len(doc) + Len(textToInsert) <= MaxDocLen
             /\ IF selEmpty
                THEN dispatch("duplicateLine", <<change(doc, insertPos, insertPos, textToInsert)>>,
                              cursorAt(insertPos + Len(textToInsert)))
                ELSE dispatch("duplicateLine", <<change(doc, insertPos, insertPos, textToInsert)>>,
                              range(insertPos, insertPos + Len(textToInsert)))

\* the text of the current line goes, its line break stays
deleteLineText ==
  /\ ~hung
  /\ IF selFrom < 0 THEN raises("deleteLine")
     ELSE LET n == lineAt(doc, selFrom)
          IN dispatch("deleteLine", <<change(doc, lineFrom(doc, n), lineTo(doc, n), <<>>)>>,
                      cursorAt(lineFrom(doc, n)))

deleteLine ==
  /\ ~hung
  /\ IF selFrom < 0 THEN raises("deleteLine")
     ELSE LET n == lineAt(doc, selFrom)
              from == lineFrom(doc, n)
              to == IF lineTo(doc, n) < Len(doc) THEN lineTo(doc, n) + 1 ELSE lineTo(doc, n)
          IN dispatch("deleteLine", <<change(doc, from, to, <<>>)>>, cursorAt(from))

moveLineUp ==
  /\ ~hung
  /\ IF selFrom < 0 THEN raises("moveLineUp")
     ELSE LET n == lineAt(doc, selFrom)
          IN IF n = 1 THEN noDispatch("moveLineUp", noResult)
             ELSE dispatch("moveLineUp",
                           <<change(doc, lineFrom(doc, n - 1), lineTo(doc, n - 1), lineText(doc, n)),
                             change(doc, lineFrom(doc, n), lineTo(doc, n), lineText(doc, n - 1))>>,
                           cursorAt(lineFrom(doc, n - 1) + (selFrom - lineFrom(doc, n))))

moveLineDown ==
  /\ ~hung
  /\ IF selFrom < 0 THEN raises("moveLineDown")
     ELSE LET n == lineAt(doc, selFrom)
          IN IF n = docLines(doc) THEN noDispatch("moveLineDown", noResult)
             ELSE dispatch("moveLineDown",
                           <<change(doc, lineFrom(doc, n), lineTo(doc, n), lineText(doc, n + 1)),
                             change(doc, lineFrom(doc, n + 1), lineTo(doc, n + 1), lineText(doc, n))>>,
                           cursorAt(lineFrom(doc, n + 1) + (selFrom - lineFrom(doc, n))))

\* an indentation that is never seen
indentLengthZero(t) == 0

\* the length of t.match(/^\s*/)[0]
indentLength(t) ==
  LET stops == {i \in 1..Len(t) : ~isSpace(t[i])}
  IN IF stops = {} THEN Len(t) ELSE (CHOOSE i \in stops : \A j \in stops : i <= j) - 1

\* t without its last character when that is a blank
trimOneBlank(t) == IF Len(t) > 0 /\ isSpace(t[Len(t)]) THEN SubSeq(t, 1, Len(t) - 1) ELSE t

\* t.replace(/[ \t]+$/, '')
trimEnd(t) ==
  LET keeps == {i \in 1..Len(t) : ~isSpace(t[i])}
  IN IF keeps = {} THEN <<>> ELSE SubSeq(t, 1, CHOOSE i \in keeps : \A j \in keeps : i >= j)

\* t.trim()
trim(t) == LET e == trimEnd(t) IN SubSeq(e, indentLength(e) + 1, Len(e))

\* getCommentSyntax: the marker of the current language
getCommentSyntax(lang) ==
  IF lang \in {"javascript", "typescript", "jsx", "tsx", "c", "cpp", "java", "rust", "go",
               "swift", "kotlin", "csharp", "php"} THEN <<"/", "/">>
  ELSE IF lang \in {"python", "ruby", "bash", "shell", "yaml", "yml", "perl", "r"} THEN <<"#">>
  ELSE IF lang \in {"html", "xml"} THEN <<"<", "!", "-", "-">>
  ELSE IF lang \in {"css", "scss", "sass", "less"} THEN <<"/", "*">>
  ELSE IF lang \in {"sql"} THEN <<"-", "-">>
  ELSE <<"/", "/">>

\* toggleLineComment(); a line is commented only while the document stays
\* within maxLen characters
toggleLineCommentWithin(maxLen) ==
  /\ ~hung
  /\ IF selFrom < 0 THEN raises("toggleLineComment")
     ELSE LET n == lineAt(doc, selFrom)
              commentChar == getCommentSyntax(currentLanguage)
              lineTextN == lineText(doc, n)
              trimmed == trim(lineTextN)
              commentIndex == indexOf(lineTextN, commentChar, 0)
              rest == sliceString(lineTextN, commentIndex + Len(commentChar), Len(lineTextN))
              uncommented == sliceString(lineTextN, 0, commentIndex)
                             \o (IF Len(rest) > 0 /\ isSpace(rest[1]) THEN Tail(rest) ELSE rest)
              indent == indentLength(lineTextN)
              commented == sliceString(lineTextN, 0, indent) \o commentChar \o <<SP>>
                           \o sliceString(lineTextN, indent, Len(lineTextN))
          IN IF startsWith(trimmed, commentChar)
             THEN dispatch("toggleLineComment",
                           <<change(doc, lineFrom(doc, n), lineTo(doc, n), uncommented)>>,
                           cursorAt(selFrom - Len(commentChar) - 1))
             ELSE /\ Len(doc) + Len(commentChar) + 1 <= maxLen
                  /\ dispatch("toggleLineComment",
                              <<change(doc, lineFrom(doc, n), lineTo(doc, n), commented)>>,
                              cursorAt(selFrom + Len(commentChar) + 1))

toggleLineComment == toggleLineCommentWithin(MaxDocLen)

indentSelection ==
  /\ ~hung
  /\ IF selFrom < 0 THEN raises("indentSelection")
     ELSE IF selEmpty
     THEN /\ Len(doc) + 2 <= MaxDocLen
          /\ dispatch("indentSelection", <<change(doc, selFrom, selFrom, <<SP, SP>>)>>,
                      cursorAt(selFrom + 2))
     ELSE LET startLine == lineAt(doc, selFrom)
              endLine == lineAt(doc, selTo)
              changes == [k \in 1..(endLine - startLine + 1) |->
                            change(doc, lineFrom(doc, startLine + k - 1),
                                   lineFrom(doc, startLine + k - 1), <<SP, SP>>)]
          IN /\ Len(doc) + 2 * Len(changes) <= MaxDocLen
             /\ dispatch("indentSelection", changes,
                         range(selFrom + 2, selTo + Len(changes) * 2))

\* what outdentSelection removes from the start of a line: 2 for two spaces,
\* else 1 for a tab, else 1 for a space, else 0
outdentWidth(t) ==
  IF startsWith(t, <<SP, SP>>) THEN 2
  ELSE IF startsWith(t, <<TAB>>) THEN 1
  ELSE IF startsWith(t, <<SP>>) THEN 1
  ELSE 0

RECURSIVE sumSeq(_)
sumSeq(ns) == IF Len(ns) = 0 THEN 0 ELSE ns[1] + sumSeq(Tail(ns))

outdentSelection ==
  /\ ~hung
  /\ IF selFrom < 0 THEN raises("outdentSelection")
     ELSE LET startLine == lineAt(doc, selFrom)
              endLine == lineAt(doc, selTo)
              touched == {i \in startLine..endLine : outdentWidth(lineText(doc, i)) > 0}
              nth(k) == CHOOSE i \in touched : Cardinality({j \in touched : j <= i}) = k
              changes == [k \in 1..Cardinality(touched) |->
                            change(doc, lineFrom(doc, nth(k)),
                                   lineFrom(doc, nth(k)) + outdentWidth(lineText(doc, nth(k))), <<>>)]
              totalRemoved == sumSeq([k \in 1..Len(changes) |-> changes[k].to - changes[k].from])
          IN IF Len(changes) > 0
             THEN dispatch("outdentSelection", changes,
                           range(Max2(lineFrom(doc, startLine), selFrom - totalRemoved),
                                 selTo - totalRemoved))
             ELSE noDispatch("outdentSelection", noResult)

\* ------------------------------------------------------- String.localeCompare
\* the collation rank of a character: white space, punctuation, symbols, then
\* letters; a letter's two cases share a rank
collationRank(c) ==
  IF c = TAB THEN 1 ELSE IF c = SP THEN 2 ELSE IF c = "_" THEN 3 ELSE IF c = "-" THEN 4
  ELSE IF c = "!" THEN 5 ELSE IF c = "*" THEN 6 ELSE IF c = "/" THEN 7 ELSE IF c = "#" THEN 8
  ELSE IF c = "<" THEN 9 ELSE IF toLowerCase(c) = "a" THEN 20 ELSE IF toLowerCase(c) = "b" THEN 21
  ELSE IF c = "c" THEN 22 ELSE 23

caseRank(c) == IF toLowerCase(c) = c THEN 0 ELSE 1

\* -1, 0 or 1 as key sequence ka sorts before, with or after kb
RECURSIVE compareKeys(_, _)
compareKeys(ka, kb) ==
  IF Len(ka) = 0 THEN (IF Len(kb) = 0 THEN 0 ELSE -1)
  ELSE IF Len(kb) = 0 THEN 1
  ELSE IF ka[1] < kb[1] THEN -1
  ELSE IF ka[1] > kb[1] THEN 1
  ELSE compareKeys(Tail(ka), Tail(kb))

\* a.localeCompare(b): letters and symbols first, letter case breaks ties
localeCompare(a, b) ==
  LET primary == compareKeys([i \in 1..Len(a) |-> collationRank(a[i])],
                             [i \in 1..Len(b) |-> collationRank(b[i])])
  IN IF primary # 0 THEN primary
     ELSE compareKeys([i \in 1..Len(a) |-> caseRank(a[i])], [i \in 1..Len(b) |-> caseRank(b[i])])

\* the ascending comparator with its arguments exchanged
compareAscendingSwapped(a, b) == localeCompare(b, a)

\* the comparators of sortLinesAscending and sortLinesDescending
compareAscending(a, b) == localeCompare(a, b)
compareDescending(a, b) == localeCompare(b, a)

compareLines(asc, a, b) == IF asc THEN compareAscending(a, b) ELSE compareDescending(a, b)

\* [...lines].sort(comparator): a stable sort
RECURSIVE insertLine(_, _, _)
insertLine(asc, x, sorted) ==
  IF Len(sorted) = 0 THEN <<x>>
  ELSE IF compareLines(asc, x, sorted[1]) < 0 THEN <<x>> \o sorted
  ELSE <<sorted[1]>> \o insertLine(asc, x, Tail(sorted))

\* a sort that moves the first line to the end
rotateLines(asc, ls) == IF Len(ls) = 0 THEN ls ELSE Tail(ls) \o <<Head(ls)>>

RECURSIVE sortLines(_, _)
sortLines(asc, ls) ==
  IF Len(ls) = 0 THEN <<>>
  ELSE insertLine(asc, ls[Len(ls)], sortLines(asc, SubSeq(ls, 1, Len(ls) - 1)))

\* ------------------------------------------------------ line-range commands
\* a range that always starts at the first line
startLineOfDocument(d, sel) == 1

\* the affected lines: all of them for an empty selection, else the lines the
\* selection touches
startLineOf(d, sel) ==
  IF sel.anchor = sel.head THEN 1 ELSE lineAt(d, Min2(sel.anchor, sel.head))
endLineOf(d, sel) ==
  IF sel.anchor = sel.head THEN docLines(d) ELSE lineAt(d, Max2(sel.anchor, sel.head))

\* the shared tail of the line-range commands: replace the range by the new
\* lines and select them
replaceLines(op, newLines) ==
  LET fromPos == lineFrom(doc, startLineOf(doc, selection))
      toPos == lineTo(doc, endLineOf(doc, selection))
      newText == join(newLines)
  IN dispatch(op, <<change(doc, fromPos, toPos, newText)>>, range(fromPos, fromPos + Len(newText)))

affectedLines == linesOf(doc, startLineOf(doc, selection), endLineOf(doc, selection))

sortLinesAscending ==
  /\ ~hung
  /\ IF ~selEmpty /\ selFrom < 0 THEN raises("sortLinesAscending")
     ELSE LET lines == affectedLines
              sortedLines == sortLines(TRUE, lines)
              hasChanged == \E i \in 1..Len(lines) : lines[i] # sortedLines[i]
          IN IF ~hasChanged THEN noDispatch("sortLinesAscending", noResult)
             ELSE replaceLines("sortLinesAscending", sortedLines)

sortLinesDescending ==
  /\ ~hung
  /\ IF ~selEmpty /\ selFrom < 0 THEN raises("sortLinesDescending")
     ELSE LET lines == affectedLines
              sortedLines == sortLines(FALSE, lines)
              hasChanged == \E i \in 1..Len(lines) : lines[i] # sortedLines[i]
          IN IF ~hasChanged THEN noDispatch("sortLinesDescending", noResult)
             ELSE replaceLines("sortLinesDescending", sortedLines)

\* a pass that drops a line only when it equals the line kept just before it
RECURSIVE uniqueAdjacentLinesOf(_, _)
uniqueAdjacentLinesOf(ls, seen) ==
  IF Len(ls) = 0 THEN <<>>
  ELSE IF ls[1] \in seen THEN uniqueAdjacentLinesOf(Tail(ls), seen)
  ELSE <<ls[1]>> \o uniqueAdjacentLinesOf(Tail(ls), {ls[1]})

\* the lines kept by removeDuplicateLines: each line not seen before
RECURSIVE uniqueLinesOf(_, _)
uniqueLinesOf(ls, seen) ==
  IF Len(ls) = 0 THEN <<>>
  ELSE IF ls[1] \in seen THEN uniqueLinesOf(Tail(ls), seen)
  ELSE <<ls[1]>> \o uniqueLinesOf(Tail(ls), seen \cup {ls[1]})

removeDuplicateLines ==
  /\ ~hung
  /\ IF ~selEmpty /\ selFrom < 0 THEN raises("removeDuplicateLines")
     ELSE LET lines == affectedLines
              uniqueLines == uniqueLinesOf(lines, {})
          IN IF Len(uniqueLines) = Len(lines) THEN noDispatch("removeDuplicateLines", noResult)
             ELSE replaceLines("removeDuplicateLines", uniqueLines)

trimTrailingSpaces ==
  /\ ~hung
  /\ IF ~selEmpty /\ selFrom < 0 THEN raises("trimTrailingSpaces")
     ELSE LET original == affectedLines
              lines == [i \in 1..Len(original) |-> trimEnd(original[i])]
              hasChanged == \E i \in 1..Len(original) : original[i] # lines[i]
          IN IF ~hasChanged THEN noDispatch("trimTrailingSpaces", noResult)
             ELSE replaceLines("trimTrailingSpaces", lines)

\* the lines kept by removeBlankLines
RECURSIVE nonBlankLinesOf(_)
nonBlankLinesOf(ls) ==
  IF Len(ls) = 0 THEN <<>>
  ELSE IF trim(ls[1]) = <<>> THEN nonBlankLinesOf(Tail(ls))
  ELSE <<ls[1]>> \o nonBlankLinesOf(Tail(ls))

removeBlankLines ==
  /\ ~hung
  /\ IF ~selEmpty /\ selFrom < 0 THEN raises("removeBlankLines")
     ELSE LET original == affectedLines
              lines == nonBlankLinesOf(original)
              hasChanged == \E i \in 1..Len(original) : trim(original[i]) = <<>>
          IN IF ~hasChanged THEN noDispatch("removeBlankLines", noResult)
             ELSE replaceLines("removeBlankLines", lines)

\* --------------------------------------------------------------- line endings
\* content.replace(/\r\n/g, '\n').replace(/\r/g, '\n')
RECURSIVE normalizeToLF(_)
normalizeToLF(s) ==
  IF Len(s) = 0 THEN <<>>
  ELSE IF s[1] = CR /\ Len(s) >= 2 /\ s[2] = NL THEN <<NL>> \o normalizeToLF(SubSeq(s, 3, Len(s)))
  ELSE IF s[1] = CR THEN <<NL>> \o normalizeToLF(Tail(s))
  ELSE <<s[1]>> \o normalizeToLF(Tail(s))

\* every line feed kept, with the ending after it
RECURSIVE expandLFAppending(_, _)
expandLFAppending(s, ending) ==
  IF Len(s) = 0 THEN <<>>
  ELSE IF s[1] = NL THEN <<NL>> \o ending \o expandLFAppending(Tail(s), ending)
  ELSE <<s[1]>> \o expandLFAppending(Tail(s), ending)

\* normalizedContent.replace(/\n/g, ending)
RECURSIVE expandLF(_, _)
expandLF(s, ending) ==
  IF Len(s) = 0 THEN <<>>
  ELSE IF s[1] = NL THEN ending \o expandLF(Tail(s), ending)
  ELSE <<s[1]>> \o expandLF(Tail(s), ending)

\* the shared tail of convertToLF, convertToCRLF and convertToCR
convertTo(op, convertedContent) ==
  IF doc = convertedContent THEN noDispatch(op, noResult)
  ELSE dispatch(op, <<change(doc, 0, Len(doc), convertedContent)>>, selection)

convertToLF == ~hung /\ convertTo("convertToLF", normalizeToLF(doc))

convertToCRLF == ~hung /\ convertTo("convertToCRLF", expandLF(normalizeToLF(doc), <<CR, NL>>))

convertToCR == ~hung /\ convertTo("convertToCR", expandLF(normalizeToLF(doc), <<CR>>))

\* the counts detectLineEnding takes of a content string
crlfCount(s) == Cardinality({i \in 1..Len(s) : s[i] = CR /\ i < Len(s) /\ s[i + 1] = NL})
crCount(s) == Cardinality({i \in 1..Len(s) : s[i] = CR /\ ~(i < Len(s) /\ s[i + 1] = NL)})
lfCount(s) == Cardinality({i \in 1..Len(s) : s[i] = NL /\ ~(i > 1 /\ s[i - 1] = CR)})

Min3(a, b, c) == Min2(a, Min2(b, c))

\* detectLineEnding on a content string; the percentages are compared as
\* count * 100 > 10 * total
lineEndingOf(s) ==
  LET crlf == crlfCount(s)
      cr == crCount(s)
      lf == lfCount(s)
      total == crlf + cr + lf
      typesPresent == (IF crlf > 0 THEN 1 ELSE 0) + (IF cr > 0 THEN 1 ELSE 0) + (IF lf > 0 THEN 1 ELSE 0)
  IN IF total = 0 THEN "LF"
     ELSE IF typesPresent > 1 /\ Min3(crlf, cr, lf) * 100 > 10 * total THEN "MIXED"
     ELSE IF crlf >= cr /\ crlf >= lf THEN "CRLF"
     ELSE IF cr >= lf THEN "CR"
     ELSE "LF"

\* detectLineEnding reads view.state.doc.toString()
detectLineEnding ==
  /\ ~hung
  /\ noDispatch("detectLineEnding", [noResult EXCEPT !.ending = lineEndingOf(doc)])

\* ------------------------------------------------------------ host and user
\* all strings over alphabet of length at most n
RECURSIVE stringsUpTo(_, _)
stringsUpTo(alphabet, n) ==
  IF n = 0 THEN {<<>>}
  ELSE LET shorter == stringsUpTo(alphabet, n - 1)
       IN shorter \cup {Append(t, c) : t \in {x \in shorter : Len(x) = n - 1}, c \in alphabet}

\* setContent(content): one change over the whole document, no selection
setContent(content) ==
  /\ ~hung
  /\ LET cs == <<change(doc, 0, Len(doc), content)>>
         nd == applyChanges(doc, cs)
         sel == mapSelection(selection, cs)
     IN /\ doc' = nd
        /\ selection' = sel
        /\ decorations' = mapDecorations(decorations, cs)
        /\ bookmarks' = remapBookmarks(bookmarks, nd)
        /\ loaded' = content
        /\ last' = callRecord("setContent", 1, FALSE, cs, FALSE, sel, Len(nd), noResult)
        /\ UNCHANGED <<tabVars, currentLanguage, searchQuery, hung>>

\* a transaction that only sets the selection
selectOnly(op, sel) ==
  /\ selection' = sel
  /\ bookmarks' = remapBookmarks(bookmarks, doc)
  /\ last' = callRecord(op, 1, FALSE, <<>>, TRUE, sel, Len(doc), noResult)
  /\ UNCHANGED <<tabVars, doc, currentLanguage, searchQuery, decorations, hung, loaded>>

\* goToLine(lineNumber): the cursor moves to the start of a line that exists
goToLine(lineNumber) ==
  /\ ~hung
  /\ IF lineNumber < 1 \/ lineNumber > docLines(doc) THEN noDispatch("goToLine", noResult)
     ELSE selectOnly("goToLine", cursorAt(lineFrom(doc, lineNumber)))

\* the user places the cursor or selects a range with mouse or keys
userSelect(a, h) ==
  /\ ~hung
  /\ a <= h /\ h <= Len(doc)
  /\ selection # range(a, h)
  /\ selectOnly("userSelect", range(a, h))

\* the user types one character over the selection
userType(c) ==
  /\ ~hung
  /\ selFrom >= 0
  /\ Len(doc) - (selTo - selFrom) + 1 <= MaxDocLen
  /\ applied("userType", <<change(doc, selFrom, selTo, <<c>>)>>, TRUE, cursorAt(selFrom + 1))

\* toggleBookmark: the effect carries the cursor's line
toggleBookmark ==
  /\ ~hung
  /\ IF selection.head < 0 THEN raises("toggleBookmark")
     ELSE /\ bookmarks' = toggleBookmarkIn(bookmarks, doc, lineAt(doc, selection.head))
          /\ last' = callRecord("toggleBookmark", 1, FALSE, <<>>, FALSE, selection, Len(doc), noResult)
          /\ UNCHANGED <<tabVars, doc, selection, currentLanguage, searchQuery, decorations, hung, loaded>>

\* clearBookmarks: the field becomes the empty set
clearBookmarks ==
  /\ ~hung
  /\ bookmarks' = {}
  /\ last' = callRecord("clearBookmarks", 1, FALSE, <<>>, FALSE, selection, Len(doc), noResult)
  /\ UNCHANGED <<tabVars, doc, selection, currentLanguage, searchQuery, decorations, hung, loaded>>

\* the jump of nextBookmark and previousBookmark: doc.line(n) throws for a
\* line the document does not have
jumpToLine(op, n) ==
  IF n < 1 \/ n > docLines(doc) THEN raises(op)
  ELSE selectOnly(op, cursorAt(lineFrom(doc, n)))

\* nextBookmark: the first bookmark after the cursor line, or else the first
nextBookmark ==
  /\ ~hung
  /\ IF selection.head < 0 THEN raises("nextBookmark")
     ELSE IF bookmarks = {} THEN noDispatch("nextBookmark", noResult)
     ELSE LET currentLine == lineAt(doc, selection.head)
              after == {l \in bookmarks : l > currentLine}
          IN jumpToLine("nextBookmark", least(IF after = {} THEN bookmarks ELSE after))

\* previousBookmark: the last bookmark before the cursor line, or else the last
previousBookmark ==
  /\ ~hung
  /\ IF selection.head < 0 THEN raises("previousBookmark")
     ELSE IF bookmarks = {} THEN noDispatch("previousBookmark", noResult)
     ELSE LET currentLine == lineAt(doc, selection.head)
              before == {l \in bookmarks : l < currentLine}
              from == IF before = {} THEN bookmarks ELSE before
          IN jumpToLine("previousBookmark", CHOOSE l \in from : \A k \in from : k <= l)

\* --------------------------------------------------- the editing commands
\* documents the editor is constructed with
LineDocs ==
  stringsUpTo({"a", SP, NL}, MaxInitLen)
  \cup { <<SP, SP, "a">>, <<"a", "b", NL, "c">>, <<"/", "/", "a">>, <<TAB, "a", NL, SP>> }

constructed(d, lang) ==
  /\ doc = d
  /\ selection = cursorAt(0)
  /\ currentLanguage = lang
  /\ searchQuery = noQuery
  /\ decorations = {}
  /\ bookmarks = {}
  /\ hung = FALSE
  /\ loaded = d
  /\ last = callRecord("constructor", 0, FALSE, <<>>, FALSE, cursorAt(0), Len(d), noResult)
  /\ newTabManager

InitLines == \E d \in LineDocs : constructed(d, "javascript")

NextLines ==
  \/ \E a \in 0..Len(doc), h \in 0..Len(doc) : userSelect(a, h)
  \/ duplicateLine
  \/ deleteLine
  \/ moveLineUp
  \/ moveLineDown
  \/ toggleLineComment
  \/ indentSelection
  \/ outdentSelection

\* the single-line and indentation commands
SpecLines == InitLines /\ [][NextLines]_vars

RangeDocs ==
  stringsUpTo({"a", "b", SP, NL}, MaxRangeLen)
  \cup { <<"b", NL, "a", NL, "c", NL>>, <<"a", TAB, NL, "B">> }

InitRange == \E d \in RangeDocs : constructed(d, "javascript")

NextRange ==
  \/ \E a \in 0..Len(doc), h \in 0..Len(doc) : userSelect(a, h)
  \/ sortLinesAscending
  \/ sortLinesDescending
  \/ removeDuplicateLines
  \/ trimTrailingSpaces
  \/ removeBlankLines
  \/ convertToLF
  \/ convertToCRLF
  \/ convertToCR

\* the line-range commands and the line-ending conversions
SpecRange == InitRange /\ [][NextRange]_vars

\* the text "a  \nb\t\n c \n"
TrimExample == <<"a", SP, SP, NL, "b", TAB, NL, SP, "c", SP, NL>>

\* lines with leading, inner and trailing blanks
InitTrim ==
  \E d \in stringsUpTo({"a", SP, NL}, MaxRangeLen) \cup {TrimExample, <<SP, "a", SP, "a", TAB, SP>>} :
    constructed(d, "javascript")

NextTrim ==
  \/ \E a \in 0..Len(doc), h \in 0..Len(doc) : userSelect(a, h)
  \/ trimTrailingSpaces

\* trimming trailing blanks over a selection or the whole document
SpecTrim == InitTrim /\ [][NextTrim]_vars

\* content strings handed to the editor, with every kind of terminator
MixedExample == <<"a", CR, NL, "b", CR, NL, "c", NL>>

Contents == stringsUpTo({"a", CR, NL}, MaxContentLen) \cup {MixedExample}

\* the editor constructed with a content string: the document holds its lines
InitEndings ==
  \E c \in Contents :
    /\ doc = toText(c)
    /\ selection = cursorAt(0)
    /\ currentLanguage = "javascript"
    /\ searchQuery = noQuery
    /\ decorations = {}
    /\ bookmarks = {}
    /\ hung = FALSE
    /\ loaded = c
    /\ last = callRecord("constructor", 0, FALSE, <<>>, FALSE, cursorAt(0), Len(toText(c)), noResult)
    /\ newTabManager

NextEndings ==
  \/ \E c \in Contents : setContent(c)
  \/ detectLineEnding
  \/ convertToLF
  \/ convertToCRLF
  \/ convertToCR

\* loading content, detecting and converting its line endings
SpecEndings == InitEndings /\ [][NextEndings]_vars

BookmarkDocs == stringsUpTo({"a", NL}, MaxBookmarkLen)

InitBookmarks == \E d \in BookmarkDocs : constructed(d, "javascript")

NextBookmarks ==
  \/ \E n \in 0..(MaxDocLen + 2) : goToLine(n)
  \/ toggleBookmark
  \/ clearBookmarks
  \/ nextBookmark
  \/ previousBookmark
  \/ duplicateLine
  \/ deleteLine
  \/ \E c \in {"a", NL} : userType(c)

\* bookmarks under edits that add and remove lines
SpecBookmarks == InitBookmarks /\ [][NextBookmarks]_vars

SearchDocs == stringsUpTo({"a", "b", SP}, MaxSearchLen)

query(search, caseSensitive, regexp, wholeWord) ==
  [search |-> search, caseSensitive |-> caseSensitive, regexp |-> regexp, wholeWord |-> wholeWord]

\* a literal, a case-sensitive literal, a two-character literal, a whole
\* word, a pattern whose matches vary in length, a pattern that matches the
\* empty string, a pattern that does not compile, and no text
Queries ==
  { query(<<"a">>, FALSE, FALSE, FALSE),
    query(<<"A">>, TRUE, FALSE, FALSE),
    query(<<"a", "a">>, FALSE, FALSE, FALSE),
    query(<<"a">>, FALSE, FALSE, TRUE),
    query(<<"a", "b", "*">>, FALSE, TRUE, FALSE),
    query(<<"a", "*">>, FALSE, TRUE, FALSE),
    query(<<"*">>, FALSE, TRUE, FALSE),
    query(<<>>, FALSE, FALSE, FALSE) }

InitSearch == \E d \in SearchDocs : constructed(d, "javascript")

NextSearch ==
  \/ \E q \in Queries : find(q)
  \/ findNext
  \/ findPrevious
  \/ getSearchInfo
  \/ clearSearch
  \/ replace(<<"b">>)
  \/ replaceAll(<<>>)
  \/ \E p \in 0..Len(doc) : userSelect(p, p)
  \/ \E c \in {"a", SP} : Len(doc) - (selTo - selFrom) < MaxSearchLen /\ userType(c)

\* searching, moving and editing
SpecSearch == InitSearch /\ [][NextSearch]_vars

\* texts over a letter in both cases and a non-word character, and texts with
\* the letter k, its capital and the Kelvin sign
MatchDocs ==
  stringsUpTo({"a", "A", "-"}, MaxMatchLen)
  \cup { <<KELVIN>>, <<"k", KELVIN, "K">>, <<KELVIN, "-", "k">> }

\* literals with and without case, a literal of two characters, whole words
\* with a word and a non-word edge, a pattern whose matches vary in length,
\* a pattern that does not compile, one that matches the empty string, no text
MatchQueries ==
  { query(<<"a">>, FALSE, FALSE, FALSE),
    query(<<"a">>, TRUE, FALSE, FALSE),
    query(<<"a", "a">>, FALSE, FALSE, FALSE),
    query(<<"a">>, FALSE, FALSE, TRUE),
    query(<<"-", "a">>, FALSE, FALSE, TRUE),
    query(<<"-", "a", "*">>, FALSE, TRUE, FALSE),
    query(<<"*">>, FALSE, TRUE, FALSE),
    query(<<"a", "*">>, FALSE, TRUE, FALSE),
    query(<<"k">>, FALSE, FALSE, FALSE),
    query(<<>>, FALSE, FALSE, FALSE) }

InitMatch == \E d \in MatchDocs : constructed(d, "javascript")

NextMatch ==
  \/ \E q \in MatchQueries : find(q)
  \/ getSearchInfo
  \/ clearSearch
  \/ \E p \in 0..Len(doc) : userSelect(p, p)

\* queries and cursor moves over a document that is not edited
SpecMatch == InitMatch /\ [][NextMatch]_vars

\* lines with and without indentation, with a marker inside, and the line
\* "  foo();"
CommentDocs ==
  stringsUpTo({"a", SP}, MaxInitLen)
  \cup { <<SP, SP, "f", "o", "o", "(", ")", ";">>, <<"a", "#", "b">>, <<TAB, "a", "/", "/">>,
         <<"a", NL, SP, "b">>, <<NL, "#">> }

InitComment == \E d \in CommentDocs, lang \in {"javascript", "python"} : constructed(d, lang)

NextComment ==
  \/ toggleLineCommentWithin(MaxCommentLen)
  \/ \E a, h \in 0..Len(doc) : userSelect(a, h)

\* commenting and uncommenting lines
SpecComment == InitComment /\ [][NextComment]_vars

\* ------------------------------------------------------------ TabManager
\* this.tabs.keys(), in insertion order
keysOf(ts) == [i \in 1..Len(ts) |-> ts[i].id]

\* this.tabs.has(tabId)
hasTab(tabId) == \E i \in 1..Len(tabs) : tabs[i].id = tabId

\* this.tabs.delete(tabId): the other entries keep their order
deleteTab(ts, tabId) == SelectSeq(ts, LAMBDA t : t.id # tabId)

\* a method can be entered when nothing runs, or from a listener that is
\* running, while the nesting stays within MaxDepth
canCall ==
  IF rounds = <<>> THEN TRUE
  ELSE rounds[Len(rounds)].inCallback /\ Len(rounds) < MaxDepth

\* notify(): const tabs = this.getAllTabs() is taken once, then the listeners
\* are called one after the other; with no listener the round is over at once
notify(ts) ==
  rounds' = IF listeners = <<>> THEN rounds
            ELSE Append(rounds, [tabs |-> keysOf(ts), pending |-> listeners,
                                 inCallback |-> FALSE, activeId |-> NoTab])

\* tab data as addTab receives it
newTabData == [filePath |-> "", content |-> <<>>, encoding |-> "utf-8", isDirty |-> FALSE]

\* addTab(data): the id is fresh
addTab ==
  /\ canCall
  /\ nextId < MaxTabIds
  /\ LET id == nextId + 1
         ts == Append(tabs, [id |-> id, filePath |-> newTabData.filePath,
                             content |-> newTabData.content, encoding |-> newTabData.encoding,
                             isDirty |-> newTabData.isDirty])
     IN /\ nextId' = id
        /\ tabs' = ts
        /\ activeTabId' = id
        /\ notify(ts)
        /\ tabCall' = called("addTab", id)
  /\ UNCHANGED <<editorVars, listeners>>

\* the active id is left as it was
keepActive(remaining) == activeTabId

\* the tab that takes over when the active one is removed; the oldest one
\* here
firstKey(remaining) == IF Len(remaining) > 0 THEN remaining[1] ELSE NoTab

\* remaining.length > 0 ? remaining[remaining.length - 1] : null
lastKey(remaining) == IF Len(remaining) > 0 THEN remaining[Len(remaining)] ELSE NoTab

\* removeTab(tabId), also for an id the map does not hold
removeTab(tabId) ==
  /\ canCall
  /\ LET ts == deleteTab(tabs, tabId)
     IN /\ tabs' = ts
        /\ activeTabId' = IF activeTabId = tabId THEN lastKey(keysOf(ts)) ELSE activeTabId
        /\ notify(ts)
  /\ tabCall' = called("removeTab", tabId)
  /\ UNCHANGED <<editorVars, listeners, nextId>>

\* the shared shape of updateTabContent, updateTabFile and saveTab: the tab,
\* if the map holds it, gets the new values of some fields in place and the
\* listeners are notified
updateTab(op, tabId, fields) ==
  /\ IF hasTab(tabId)
     THEN /\ tabs' = [i \in 1..Len(tabs) |->
                       IF tabs[i].id = tabId
                       THEN [f \in DOMAIN tabs[i] |->
                               IF f \in DOMAIN fields THEN fields[f] ELSE tabs[i][f]]
                       ELSE tabs[i]]
          /\ notify(tabs)
     ELSE UNCHANGED <<tabs, rounds>>
  /\ tabCall' = called(op, tabId)
  /\ UNCHANGED <<editorVars, activeTabId, listeners, nextId>>

updateTabContent(tabId, content) ==
  /\ rounds = <<>>
  /\ updateTab("updateTabContent", tabId, [content |-> content, isDirty |-> TRUE])

updateTabFile(tabId, filePath, content, encoding) ==
  /\ rounds = <<>>
  /\ updateTab("updateTabFile", tabId,
               [filePath |-> filePath, content |-> content, encoding |-> encoding,
                isDirty |-> FALSE])

saveTab(tabId) ==
  /\ rounds = <<>>
  /\ updateTab("saveTab", tabId, [isDirty |-> FALSE])

\* setActiveTab(tabId): nothing happens for an id the map does not hold
setActiveTab(tabId) ==
  /\ canCall
  /\ IF hasTab(tabId)
     THEN /\ activeTabId' = tabId
          /\ notify(tabs)
     ELSE UNCHANGED <<activeTabId, rounds>>
  /\ tabCall' = called("setActiveTab", tabId)
  /\ UNCHANGED <<editorVars, tabs, listeners, nextId>>

\* subscribe(callback): the callback joins the set and is called at once with
\* the tabs and the active id of this moment
subscribe(callback) ==
  /\ rounds = <<>>
  /\ listeners' = IF \E i \in 1..Len(listeners) : listeners[i] = callback THEN listeners
                  ELSE Append(listeners, callback)
  /\ rounds' = <<[tabs |-> keysOf(tabs), pending |-> <<callback>>,
                  inCallback |-> TRUE, activeId |-> activeTabId]>>
  /\ tabCall' = called("subscribe", NoTab)
  /\ UNCHANGED <<editorVars, tabs, activeTabId, nextId>>

\* the function subscribe returned: this.listeners.delete(callback)
unsubscribe(callback) ==
  /\ rounds = <<>>
  /\ \E i \in 1..Len(listeners) : listeners[i] = callback
  /\ listeners' = SelectSeq(listeners, LAMBDA l : l # callback)
  /\ tabCall' = called("unsubscribe", NoTab)
  /\ UNCHANGED <<editorVars, tabs, activeTabId, nextId, rounds>>

\* callback(tabs, this.activeTabId) inside forEach: the array is the one
\* notify took at its start, the active id is read now
callListener ==
  /\ rounds # <<>>
  /\ ~rounds[Len(rounds)].inCallback
  /\ rounds[Len(rounds)].pending # <<>>
  /\ rounds' = [rounds EXCEPT ![Len(rounds)] = [@ EXCEPT !.inCallback = TRUE,
                                                         !.activeId = activeTabId]]
  /\ UNCHANGED <<editorVars, tabs, activeTabId, listeners, nextId, tabCall>>

\* the running callback returns
listenerReturns ==
  /\ rounds # <<>>
  /\ rounds[Len(rounds)].inCallback
  /\ rounds' = [rounds EXCEPT ![Len(rounds)] = [@ EXCEPT !.inCallback = FALSE,
                                                         !.activeId = NoTab,
                                                         !.pending = Tail(@)]]
  /\ UNCHANGED <<editorVars, tabs, activeTabId, listeners, nextId, tabCall>>

\* forEach is through: notify, or subscribe, returns
roundEnds ==
  /\ rounds # <<>>
  /\ ~rounds[Len(rounds)].inCallback
  /\ rounds[Len(rounds)].pending = <<>>
  /\ rounds' = SubSeq(rounds, 1, Len(rounds) - 1)
  /\ UNCHANGED <<editorVars, tabs, activeTabId, listeners, nextId, tabCall>>

InitTabs == constructed(<<>>, "javascript")

NextTabs ==
  \/ addTab
  \/ \E tabId \in 1..MaxTabIds : removeTab(tabId)
  \/ \E tabId \in 1..MaxTabIds : setActiveTab(tabId)
  \/ \E tabId \in 1..MaxTabIds : updateTabContent(tabId, <<"a">>)
  \/ \E tabId \in 1..MaxTabIds : updateTabFile(tabId, "f", <<>>, "latin1")
  \/ \E tabId \in 1..MaxTabIds : saveTab(tabId)
  \/ \E callback \in 1..MaxListeners : subscribe(callback)
  \/ \E callback \in 1..MaxListeners : unsubscribe(callback)
  \/ callListener
  \/ listenerReturns
  \/ roundEnds

\* the TabManager with listeners that call back into it
SpecTabs == InitTabs /\ [][NextTabs]_vars

\* ------------------------------------------------------------------ claims
RangeCommands ==
  {"sortLinesAscending", "sortLinesDescending", "removeDuplicateLines", "trimTrailingSpaces",
   "removeBlankLines", "convertToLF", "convertToCRLF", "convertToCR"}

EditingCommands ==
  RangeCommands \cup {"toggleLineComment", "moveLineUp", "moveLineDown", "indentSelection",
                      "outdentSelection", "duplicateLine", "deleteLine"}

\* C1: a line-range command or line-ending conversion that dispatches writes
\* a text that differs from the text it replaces; it never dispatches a
\* change whose inserted text equals the replaced text.
C1_NoOpGuard ==
  (last.op \in RangeCommands /\ last.dispatched > 0)
    => \E i \in 1..Len(last.changes) : last.changes[i].insert # last.changes[i].old

\* C5: the selection an editing command asks its dispatch to set lies within
\* [0, length of the document its changes produce], and the command does not
\* throw.
C5_SelectionInsideDocument ==
  (last.op \in EditingCommands)
    => /\ ~last.threw
       /\ last.selGiven => /\ 0 <= Min2(last.sel.anchor, last.sel.head)
                           /\ Max2(last.sel.anchor, last.sel.head) <= last.newLen

\* C8: moveLineUp on a line that is not the first and moveLineDown on a line
\* that is not the last exchange the two lines' texts and ask for the cursor
\* on the moved line at its old column; at the first / last line they do not
\* dispatch.
C8_MoveKeepsColumn ==
  [][(last'.op \in {"moveLineUp", "moveLineDown"} /\ selFrom >= 0) =>
       LET n == lineAt(doc, selFrom)
           col == selFrom - lineFrom(doc, n)
           m == IF last'.op = "moveLineUp" THEN n - 1 ELSE n + 1
           nd == applyChanges(doc, last'.changes)
       IN IF m < 1 \/ m > docLines(doc) THEN last'.dispatched = 0
          ELSE /\ last'.dispatched = 1
               /\ lineText(nd, m) = lineText(doc, n)
               /\ lineText(nd, n) = lineText(doc, m)
               /\ last'.sel = cursorAt(lineFrom(nd, m) + col)]_vars

\* C9: outdentSelection removes from every touched line two leading spaces,
\* else one tab, else one space; the new selection bounds are the old bounds
\* less the total removed, held at the start of the first touched line, so
\* neither bound lies before that start.
C9_OutdentSelection ==
  [][(last'.op = "outdentSelection" /\ selFrom >= 0 /\ last'.dispatched = 1) =>
       LET startLine == lineAt(doc, selFrom)
           endLine == lineAt(doc, selTo)
           nd == applyChanges(doc, last'.changes)
           total == Len(doc) - Len(nd)
           floor == lineFrom(doc, startLine)
       IN /\ docLines(nd) = docLines(doc)
          /\ \A i \in 1..docLines(doc) :
               lineText(nd, i) = IF i \in startLine..endLine
                                 THEN LET t == lineText(doc, i) IN SubSeq(t, outdentWidth(t) + 1, Len(t))
                                 ELSE lineText(doc, i)
          /\ Min2(last'.sel.anchor, last'.sel.head) = Max2(floor, selFrom - total)
          /\ Max2(last'.sel.anchor, last'.sel.head) = Max2(floor, selTo - total)]_vars

SortExample == <<"b", NL, "a", NL, "c", NL>>

\* C10 as stated: sortLinesAscending with an empty selection on "b\na\nc\n"
\* leaves the document "a\nb\nc\n" and a selection over the replaced range.
C10_SortExampleAsStated ==
  [][(doc = SortExample /\ selEmpty /\ last'.op = "sortLinesAscending") =>
       /\ doc' = <<"a", NL, "b", NL, "c", NL>>
       /\ selection' = range(0, Len(doc'))]_vars

\* C10: sortLinesAscending with an empty selection on "b\na\nc\n" dispatches
\* once and leaves the document "\na\nb\nc" (the empty last line sorts
\* first), and the selection covers exactly the replaced range [0, 6].
C10_SortExample ==
  [][(doc = SortExample /\ selEmpty /\ last'.op = "sortLinesAscending") =>
       /\ last'.dispatched = 1
       /\ doc' = <<NL, "a", NL, "b", NL, "c">>
       /\ selection' = range(0, 6)]_vars

C10_Witness ==
  /\ last.op = "sortLinesAscending"
  /\ last.dispatched = 1
  /\ last.changes[1].old = SortExample
  /\ doc = <<NL, "a", NL, "b", NL, "c">>

\* the edit of this step lies above line L and leaves L's text alone: every
\* change ends before L's start, or deletes whole lines up to L's start
editAbove(L) ==
  \A i \in 1..Len(last'.changes) :
    LET c == last'.changes[i]
    IN \/ c.to < lineFrom(doc, L)
       \/ /\ c.to = lineFrom(doc, L) /\ c.from < c.to /\ c.insert = <<>>
          /\ (c.from = 0 \/ doc[c.from] = NL)

\* C6: when an applied edit adds or removes lines above a bookmarked line,
\* the bookmark set holds that line's new number afterwards.
C6_BookmarkFollowsLine ==
  [][\A L \in bookmarks :
       (/\ last'.dispatched = 1 /\ ~last'.threw /\ Len(last'.changes) > 0
        /\ L <= docLines(doc) /\ editAbove(L)
        /\ docLines(doc') # docLines(doc))
       => (L + docLines(doc') - docLines(doc)) \in bookmarks']_vars

\* more than one terminator type occurs in s and the least frequent type
\* that occurs is more than 10% of all terminators
minorityOver10(s) ==
  LET counts == {n \in {crlfCount(s), crCount(s), lfCount(s)} : n > 0}
      total == crlfCount(s) + crCount(s) + lfCount(s)
      kinds == (IF crlfCount(s) > 0 THEN 1 ELSE 0) + (IF crCount(s) > 0 THEN 1 ELSE 0)
               + (IF lfCount(s) > 0 THEN 1 ELSE 0)
  IN kinds > 1 /\ \A n \in counts : n * 100 > 10 * total

\* C7: detectLineEnding on a document just loaded from a content string with
\* more than one terminator type, the rarest above 10%, answers MIXED.
C7_MixedDetected ==
  (last.op = "detectLineEnding" /\ doc = toText(loaded) /\ minorityOver10(loaded))
    => last.result.ending = "MIXED"

\* the spans the active query matches in the current document
spansOf(ms) == {[from |-> ms[i].from, to |-> ms[i].to] : i \in 1..Len(ms)}

matchSpans ==
  IF ~regexOf(searchQuery).valid THEN {} ELSE spansOf(execAll(regexOf(searchQuery), doc, 0))

highlightedSpans == {[from |-> m.from, to |-> m.to] : m \in decorations}

\* C2: while a query with text is active, after any sequence of finds, cursor
\* moves and edits the highlighted spans are exactly the spans the query
\* matches in the current document.
C2_HighlightsFollowDocument ==
  (searchQuery.search # <<>> /\ ~hung) => highlightedSpans = matchSpans

\* the marks before mark m
rankOf(m) == Cardinality({x \in decorations : x.from < m.from}) + 1

\* C3: after find, every match is highlighted and exactly one mark is the
\* distinguished one: the mark whose 1-based position is the currentIndex
\* that find returned.
C3_OneCurrentHighlight ==
  (last.op = "find" /\ ~hung /\ last.result.count > 0) =>
    /\ highlightedSpans = matchSpans
    /\ {rankOf(m) : m \in {x \in decorations : x.current}} = {last.result.currentIndex}

\* the index the rule gives: the first match whose span [from, to] holds the
\* cursor or starts at or after it, the count when the cursor is past all
expectedIndex(spans, cursorPos) ==
  LET rank(m) == Cardinality({x \in spans : x.from < m.from}) + 1
      hits == {rank(m) : m \in {x \in spans : (x.from <= cursorPos /\ cursorPos <= x.to) \/ x.from >= cursorPos}}
  IN IF spans = {} THEN 0 ELSE IF hits = {} THEN Cardinality(spans) ELSE least(hits)

\* C4: the current match index that find and getSearchInfo return is 0 with
\* no match, else the 1-based index of the first match whose span holds the
\* cursor or starts at or after it, else the number of matches; in literal,
\* whole-word and regex mode alike.
C4_CurrentMatchIndex ==
  (last.op \in {"find", "getSearchInfo"} /\ ~hung /\ searchQuery.search # <<>>) =>
    last.result.currentIndex = expectedIndex(matchSpans, selFrom)

literalQuery(q) == q.search # <<>> /\ ~q.regexp /\ ~q.wholeWord

\* the query text occurs in text at offset i, up to letter case unless the
\* query is case sensitive; two characters differ in case only when they have
\* one capital
occursAt(text, q, i) ==
  /\ i + Len(q.search) <= Len(text)
  /\ \A j \in 1..Len(q.search) :
       IF q.caseSensitive THEN text[i + j] = q.search[j]
       ELSE canonicalize(text[i + j]) = canonicalize(q.search[j])

markStarts == {m.from : m \in decorations}

\* C11: after find with a literal query, every mark spans an occurrence of
\* the query text (exact, or up to letter case), no two marks overlap, and
\* the marks are those of a left-to-right scan that resumes after the end of
\* each match.
C11_LiteralMatches ==
  (last.op = "find" /\ ~hung /\ literalQuery(searchQuery)) =>
    /\ \A m \in decorations : m.to = m.from + Len(searchQuery.search) /\ occursAt(doc, searchQuery, m.from)
    /\ \A m1, m2 \in decorations : m1 # m2 => (m1.to <= m2.from \/ m2.to <= m1.from)
    /\ \A i \in 0..Len(doc) :
         i \in markStarts <=>
           (occursAt(doc, searchQuery, i)
            /\ \A j \in markStarts : j < i => j + Len(searchQuery.search) <= i)

\* a case-insensitive find that matched text of another case and skipped an
\* occurrence that overlaps a match
C11_Witness ==
  /\ last.op = "find" /\ ~hung /\ literalQuery(searchQuery)
  /\ \E m \in decorations : SubSeq(doc, m.from + 1, m.to) # searchQuery.search
  /\ \E i \in 0..Len(doc) : occursAt(doc, searchQuery, i) /\ i \notin markStarts
  /\ last.result.count >= 1

\* the occurrence at offset i has no word character right before or after it
standsAlone(text, q, i) ==
  /\ occursAt(text, q, i)
  /\ ~(i >= 1 /\ isWordChar(text[i]))
  /\ ~(i + Len(q.search) < Len(text) /\ isWordChar(text[i + Len(q.search) + 1]))

\* C12: after find in whole-word mode, with any query text, an occurrence of
\* the text is a match exactly when the characters right before and after it
\* are not word characters, and the count returned is the number of these.
C12_WholeWordMatches ==
  (last.op = "find" /\ ~hung /\ searchQuery.wholeWord /\ ~searchQuery.regexp
   /\ searchQuery.search # <<>>) =>
    /\ \A i \in 0..Len(doc) : i \in markStarts <=> standsAlone(doc, searchQuery, i)
    /\ last.result.count = Cardinality({i \in 0..Len(doc) : standsAlone(doc, searchQuery, i)})

invalidPattern(q) == q.regexp /\ q.search # <<>> /\ ~validRegExp(q.search)

\* C13: find with regexp on and a pattern that does not compile raises
\* nothing, returns count 0 and currentIndex 0, leaves no mark, and leaves
\* the document and the selection as they were.
C13_InvalidRegex ==
  [][(last'.op = "find" /\ invalidPattern(searchQuery')) =>
       /\ ~last'.threw /\ ~hung'
       /\ last'.result.count = 0 /\ last'.result.currentIndex = 0
       /\ decorations' = {}
       /\ doc' = doc /\ selection' = selection]_vars

\* find with a pattern that does not compile has returned, on a document
\* with text and the cursor moved off the start
C13_Witness ==
  /\ last.op = "find" /\ invalidPattern(searchQuery)
  /\ Len(doc) > 0 /\ selFrom > 0
  /\ last.result.count = 0 /\ decorations = {}

\* C14: for the document and the active query of any state, the current
\* match index never gets smaller when the cursor moves forward: for cursor
\* positions p < q the index at q is at least the index at p; find and
\* getSearchInfo return the index at the cursor.
C14_IndexMonotonic ==
  (~hung /\ searchQuery.search # <<>>) =>
    /\ \A p, q \in 0..Len(doc) :
         p < q => getCurrentMatchIndex(doc, p, searchQuery) <= getCurrentMatchIndex(doc, q, searchQuery)
    /\ last.op \in {"find", "getSearchInfo"} =>
         last.result.currentIndex = getCurrentMatchIndex(doc, selFrom, searchQuery)

\* getSearchInfo with the cursor at the end of the document, past the last
\* of several matches, while the index at the document's start is 1
C14_Witness ==
  /\ last.op = "getSearchInfo" /\ ~hung
  /\ selFrom = Len(doc)
  /\ last.result.count >= 2 /\ last.result.currentIndex = last.result.count
  /\ getCurrentMatchIndex(doc, 0, searchQuery) = 1
  /\ getCurrentMatchIndex(doc, Len(doc) - 1, searchQuery) < last.result.count

LineRangeCommands ==
  {"sortLinesAscending", "sortLinesDescending", "removeDuplicateLines", "trimTrailingSpaces",
   "removeBlankLines"}

\* the start of the line that holds offset pos, and the end of that line
lineStartBefore(d, pos) ==
  CHOOSE i \in 0..pos : (i = 0 \/ d[i] = NL) /\ \A j \in (i + 1)..pos : d[j] # NL
lineEndAfter(d, pos) ==
  CHOOSE k \in pos..Len(d) : (k = Len(d) \/ d[k + 1] = NL) /\ \A j \in (pos + 1)..k : d[j] # NL

rangeStart == IF selEmpty THEN 0 ELSE lineStartBefore(doc, selFrom)
rangeEnd == IF selEmpty THEN Len(doc) ELSE lineEndAfter(doc, selTo)

\* C15: a sort, removeDuplicateLines, trimTrailingSpaces or removeBlankLines
\* dispatches at most once; the dispatch has one change, which replaces
\* exactly the text from the start of the first affected line to the end of
\* the last one, and the text before and after that range stays as it was.
C15_RangeFrame ==
  [][last'.op \in LineRangeCommands =>
       /\ last'.dispatched <= 1
       /\ ~last'.threw
       /\ last'.dispatched = 0 => doc' = doc
       /\ last'.dispatched = 1 =>
            /\ Len(last'.changes) = 1
            /\ last'.changes[1].from = rangeStart
            /\ last'.changes[1].to = rangeEnd
            /\ Len(doc') = Len(doc) - (rangeEnd - rangeStart) + Len(last'.changes[1].insert)
            /\ SubSeq(doc', 1, rangeStart) = SubSeq(doc, 1, rangeStart)
            /\ SubSeq(doc', Len(doc') - (Len(doc) - rangeEnd) + 1, Len(doc'))
                 = SubSeq(doc, rangeEnd + 1, Len(doc))]_vars

\* a line-range command has replaced lines in the middle of the document:
\* text stands before and after the replaced range
C15_Witness ==
  /\ last.op \in LineRangeCommands /\ last.dispatched = 1 /\ ~last.threw
  /\ last.changes[1].from > 0
  /\ last.changes[1].from + Len(last.changes[1].insert) < Len(doc)

\* C16: a sortLinesAscending right after a sortLinesAscending, with the
\* selection the first call left, dispatches nothing and leaves the document
\* as the first call left it; likewise for sortLinesDescending.
C16_SortIdempotent ==
  [][\A op \in {"sortLinesAscending", "sortLinesDescending"} :
       (last.op = op /\ last'.op = op) =>
         /\ last'.dispatched = 0 /\ ~last'.threw
         /\ doc' = doc /\ selection' = selection]_vars

\* a sort that dispatched and left a selection over the lines it sorted,
\* with text outside them
C16_Witness ==
  /\ last.op \in {"sortLinesAscending", "sortLinesDescending"}
  /\ last.dispatched = 1 /\ ~last.threw
  /\ selection = last.sel /\ ~selEmpty
  /\ selTo < Len(doc)

\* the lines of a text
textLines(t) == [k \in 1..docLines(t) |-> lineText(t, k)]

\* the lines of ls that differ from every line before them, in their order
firstOccurrences(ls) ==
  LET firsts == {i \in 1..Len(ls) : \A j \in 1..(i - 1) : ls[j] # ls[i]}
      kth(k) == CHOOSE i \in firsts : Cardinality({j \in firsts : j <= i}) = k
  IN [k \in 1..Cardinality(firsts) |-> ls[kth(k)]]

\* the text of the affected range before the step and the text in its place
\* after it
rangeBefore == SubSeq(doc, rangeStart + 1, rangeEnd)
rangeAfter == SubSeq(doc', rangeStart + 1, rangeEnd + Len(doc') - Len(doc))

\* C17: removeDuplicateLines leaves in place of the affected range exactly
\* those of its lines that are the first with their text in the range, in
\* their order; a range without duplicates is left as it is.
C17_FirstOccurrencesKept ==
  [][last'.op = "removeDuplicateLines" =>
       /\ ~last'.threw
       /\ textLines(rangeAfter) = firstOccurrences(textLines(rangeBefore))
       /\ last'.dispatched = 0 => doc' = doc]_vars

\* removeDuplicateLines dropped a line that repeats a line further up, with
\* another line between them
C17_Witness ==
  /\ last.op = "removeDuplicateLines" /\ last.dispatched = 1 /\ ~last.threw
  /\ \E i, j \in 1..docLines(last.changes[1].old) :
       /\ i + 1 < j
       /\ lineText(last.changes[1].old, i) = lineText(last.changes[1].old, j)
       /\ lineText(last.changes[1].old, i + 1) # lineText(last.changes[1].old, i)
  /\ docLines(last.changes[1].insert) = 2

\* C18: a removeDuplicateLines right after a removeDuplicateLines, with the
\* selection the first call left, dispatches nothing and leaves the document
\* unchanged.
C18_DedupeIdempotent ==
  [][(last.op = "removeDuplicateLines" /\ last'.op = "removeDuplicateLines") =>
       /\ last'.dispatched = 0
       /\ doc' = doc]_vars

\* the number of leading blanks of t
leading(t) ==
  CHOOSE k \in 0..Len(t) : (\A i \in 1..k : isSpace(t[i])) /\ (k = Len(t) \/ ~isSpace(t[k + 1]))

marker == getCommentSyntax(currentLanguage)

\* t does not start with the marker after its indentation
plainLine(t) == ~startsWith(SubSeq(t, leading(t) + 1, Len(t)), marker)

\* t with the marker and one space right after its indentation
markedLine(t) ==
  SubSeq(t, 1, leading(t)) \o marker \o <<SP>> \o SubSeq(t, leading(t) + 1, Len(t))

\* the line under the start of the selection
cursorLineStart == lineStartBefore(doc, selFrom)
cursorLineEnd == lineEndAfter(doc, selFrom)
cursorLine == SubSeq(doc, cursorLineStart + 1, cursorLineEnd)

\* C19: toggleLineComment on a line whose text after the indentation does
\* not start with the comment marker puts the marker and one space right
\* after the indentation and leaves the rest of the document alone; a
\* toggleLineComment right after it, with the selection it left, puts the
\* original text of the line back, so that the document is as before the two.
C19_ToggleRoundTrip ==
  [][(last'.op = "toggleLineComment" /\ selFrom >= 0) =>
       /\ plainLine(cursorLine) =>
            /\ last'.dispatched = 1 /\ ~last'.threw
            /\ doc' = SubSeq(doc, 1, cursorLineStart) \o markedLine(cursorLine)
                      \o SubSeq(doc, cursorLineEnd + 1, Len(doc))
       /\ (/\ last.op = "toggleLineComment" /\ last.dispatched = 1 /\ ~last.threw
           /\ plainLine(last.changes[1].old)
           /\ selection = last.sel) =>
            /\ last'.dispatched = 1 /\ ~last'.threw
            /\ cursorLine = markedLine(last.changes[1].old)
            /\ doc' = SubSeq(doc, 1, cursorLineStart) \o last.changes[1].old
                      \o SubSeq(doc, cursorLineEnd + 1, Len(doc))]_vars

\* the line "  foo();" was commented to "  // foo();" and a second
\* toggleLineComment has put "  foo();" back
C19_Witness ==
  /\ last.op = "toggleLineComment" /\ last.dispatched = 1 /\ ~last.threw
  /\ currentLanguage = "javascript"
  /\ last.changes[1].old = <<SP, SP, "/", "/", SP, "f", "o", "o", "(", ")", ";">>
  /\ doc = <<SP, SP, "f", "o", "o", "(", ")", ";">>

\* the document before the call that last recorded
beforeLast == IF last.dispatched = 1 /\ ~last.threw THEN last.changes[1].old ELSE doc

\* C20: on a document with LF endings only, convertToLF leaves the content
\* as it is, and a convertToLF right after a convertToCRLF leaves the content
\* that stood before the convertToCRLF; so convertToLF, convertToCRLF,
\* convertToLF in a row end with the original content. No call throws.
C20_EndingRoundTrip ==
  [][/\ last'.op \in {"convertToLF", "convertToCRLF"} => ~last'.threw
     /\ (last'.op = "convertToLF" /\ \A i \in 1..Len(doc) : doc[i] # CR) => doc' = doc
     /\ (/\ last.op = "convertToCRLF" /\ last'.op = "convertToLF"
         /\ \A i \in 1..Len(beforeLast) : beforeLast[i] # CR) => doc' = beforeLast]_vars

\* convertToCRLF has dispatched its replacement over a document of two lines
\* with an LF between them, and convertToLF comes next
C20_Witness ==
  /\ last.op = "convertToCRLF" /\ last.dispatched = 1 /\ ~last.threw
  /\ \E i \in 1..Len(last.changes[1].old) : last.changes[1].old[i] = NL
  /\ \A i \in 1..Len(last.changes[1].old) : last.changes[1].old[i] # CR
  /\ doc = last.changes[1].old
  /\ ENABLED convertToLF

\* the end of what deleteLine takes away: past the line break of the line
\* under the selection start, or the end of the document on the last line
cursorLineBreakEnd == IF cursorLineEnd < Len(doc) THEN cursorLineEnd + 1 ELSE cursorLineEnd

\* C21: deleteLine removes the line under the selection start together with
\* the line break after it, or without a line break when it is the last
\* line; the rest of the document stays, and the cursor stands at the offset
\* where the removed line started, which is the start of a line of the new
\* document.
C21_DeleteLine ==
  [][(last'.op = "deleteLine" /\ selFrom >= 0) =>
       /\ last'.dispatched = 1 /\ ~last'.threw
       /\ doc' = SubSeq(doc, 1, cursorLineStart) \o SubSeq(doc, cursorLineBreakEnd + 1, Len(doc))
       /\ selection' = cursorAt(cursorLineStart)
       /\ cursorLineStart <= Len(doc')
       /\ cursorLineStart = 0 \/ doc'[cursorLineStart] = NL]_vars

\* deleteLine has removed a line with its line break from the middle of the
\* document: text stands before and after the cursor
C21_Witness ==
  /\ last.op = "deleteLine" /\ last.dispatched = 1 /\ ~last.threw
  /\ last.changes[1].from > 0
  /\ Len(last.changes[1].old) > 1
  /\ last.changes[1].old[Len(last.changes[1].old)] = NL
  /\ Len(doc) > selFrom

\* the terminator types that occur in s
typesIn(s) ==
  (IF crlfCount(s) > 0 THEN {"CRLF"} ELSE {}) \cup (IF crCount(s) > 0 THEN {"CR"} ELSE {})
  \cup (IF lfCount(s) > 0 THEN {"LF"} ELSE {})

\* C22: detectLineEnding on a document just loaded from a content string
\* answers LF when the content has no terminator, and answers the one
\* terminator type of the content when exactly one type occurs in it, a CR
\* followed by LF counting as one CRLF and as nothing else.
C22_OneTypeClassified ==
  (last.op = "detectLineEnding" /\ doc = toText(loaded)) =>
    /\ typesIn(loaded) = {} => last.result.ending = "LF"
    /\ \A k \in {"CRLF", "CR", "LF"} : typesIn(loaded) = {k} => last.result.ending = k

\* t up to its last character that is neither a space nor a tab
withoutTrailingBlanks(t) ==
  SubSeq(t, 1, CHOOSE k \in 0..Len(t) : /\ k = 0 \/ ~isSpace(t[k])
                                        /\ \A j \in (k + 1)..Len(t) : isSpace(t[j]))

\* C23: trimTrailingSpaces leaves in place of the affected range its lines,
\* each without its whole trailing run of spaces and tabs and otherwise as it
\* was, and leaves the text outside the range alone; the text
\* "a  \nb\t\n c \n" becomes "a\nb\n c\n".
C23_TrailingBlanksRemoved ==
  [][last'.op = "trimTrailingSpaces" =>
       /\ ~last'.threw
       /\ doc' = SubSeq(doc, 1, rangeStart) \o rangeAfter \o SubSeq(doc, rangeEnd + 1, Len(doc))
       /\ textLines(rangeAfter)
            = [i \in 1..Len(textLines(rangeBefore)) |->
                 withoutTrailingBlanks(textLines(rangeBefore)[i])]
       /\ (doc = TrimExample /\ selEmpty) =>
            doc' = <<"a", NL, "b", NL, SP, "c", NL>>]_vars

\* trimTrailingSpaces has turned "a  \nb\t\n c \n" into "a\nb\n c\n"
C23_Witness ==
  /\ last.op = "trimTrailingSpaces" /\ last.dispatched = 1 /\ ~last.threw
  /\ last.changes[1].old = TrimExample
  /\ doc = <<"a", NL, "b", NL, SP, "c", NL>>

\* the number of the line that holds the selection head
headLine == 1 + Cardinality({i \in 1..selection.head : doc[i] = NL})

\* C24: toggleBookmark with the cursor on a line without a bookmark adds that
\* line to the set and nothing else; on a bookmarked line it removes that line
\* and nothing else, so a second toggle on the same line restores the set;
\* clearBookmarks leaves the set empty.  None of them touches the document.
C24_ToggleSymmetric ==
  [][/\ (last'.op = "toggleBookmark" /\ selection.head >= 0) =>
          /\ ~last'.threw /\ doc' = doc /\ selection' = selection
          /\ headLine \notin bookmarks => bookmarks' = bookmarks \cup {headLine}
          /\ headLine \in bookmarks => bookmarks' = bookmarks \ {headLine}
     /\ last'.op = "clearBookmarks" => (bookmarks' = {} /\ doc' = doc)]_vars

\* toggleBookmark has taken the cursor line's bookmark away and left the
\* bookmarks of other lines
C24_Witness ==
  /\ last.op = "toggleBookmark" /\ ~last.threw
  /\ selection.head >= 0
  /\ headLine \notin bookmarks
  /\ \E l \in bookmarks : l < headLine
  /\ \E l \in bookmarks : l > headLine

\* C25: find, findNext, findPrevious and getSearchInfo return for every
\* document and every query whose pattern is valid, also when the pattern
\* matches the empty string: no loop that collects matches runs for ever.
C25_SearchTerminates ==
  (last.op \in {"find", "findNext", "findPrevious", "getSearchInfo"} /\ validQuery(searchQuery))
    => ~hung

\* C26: at every moment, inside notification rounds too, the active tab id is
\* null exactly when the map holds no tab, and otherwise it is the id of a tab
\* in the map.
C26_ActiveTabValid ==
  /\ activeTabId = NoTab <=> tabs = <<>>
  /\ activeTabId # NoTab => \E i \in 1..Len(tabs) : tabs[i].id = activeTabId

\* every tab that could be added has been added, and removeTab has emptied
\* the map again
C26_Witness ==
  /\ tabCall.op = "removeTab"
  /\ nextId = MaxTabIds
  /\ tabs = <<>> /\ activeTabId = NoTab

\* the id handed out last among the tabs of the map, or null without tabs
newestTab ==
  IF tabs = <<>> THEN NoTab
  ELSE CHOOSE id \in {tabs[i].id : i \in 1..Len(tabs)} : \A i \in 1..Len(tabs) : tabs[i].id <= id

\* C27: after removeTab of the tab that was active, the active tab is the one
\* added last among those left, or null when none is left; after removeTab of
\* any other id, in the map or not, the active id is what it was.
C27_RemoveTabActive ==
  tabCall.op = "removeTab" =>
    /\ \A i \in 1..Len(tabs) : tabs[i].id # tabCall.tabId
    /\ activeTabId = IF tabCall.activeBefore = tabCall.tabId THEN newestTab
                     ELSE tabCall.activeBefore

\* removeTab has removed the active tab, which was not the newest, and two
\* tabs are left
C27_Witness ==
  /\ tabCall.op = "removeTab"
  /\ tabCall.activeBefore = tabCall.tabId
  /\ Len(tabs) = 2
  /\ tabCall.tabId < tabs[2].id
  /\ activeTabId = tabs[2].id

\* C28: whenever a listener runs, the active id it was called with is null or
\* the id of a tab of the array it was called with.
C28_ListenerArguments ==
  \A r \in 1..Len(rounds) :
    rounds[r].inCallback =>
      \/ rounds[r].activeId = NoTab
      \/ \E i \in 1..Len(rounds[r].tabs) : rounds[r].tabs[i] = rounds[r].activeId

\* C29: the count find returns is the number of spans the custom search
\* highlight marks for the same query, and the offsets getCurrentMatchIndex
\* collects are the starts of those spans.
C29_CountEqualsHighlights ==
  (last.op = "find" /\ ~hung) =>
    /\ last.result.count = Cardinality(decorations)
    /\ last.result.count > 0 =>
         {matchPositions(doc, searchQuery)[i] : i \in 1..Len(matchPositions(doc, searchQuery))}
           = {m.from : m \in decorations}

\* the offset at which line n of the document starts
startOfLine(n) ==
  CHOOSE p \in 0..Len(doc) :
    /\ p = 0 \/ doc[p] = NL
    /\ Cardinality({i \in 1..p : doc[i] = NL}) = n - 1

\* the bookmark a jump from the cursor line goes to: the nearest one in the
\* direction of the jump, or, with none there, the first one for a jump
\* forward and the last one for a jump backward
nearestBookmark(forward) ==
  LET ahead == {l \in bookmarks : IF forward THEN l > headLine ELSE l < headLine}
      from == IF ahead = {} THEN bookmarks ELSE ahead
  IN CHOOSE l \in from : \A k \in from : IF forward THEN l <= k ELSE l >= k

\* C30: every bookmarked line number is at least 1 and at most the line count
\* of the document, after every edit, toggle and clear; nextBookmark puts the
\* cursor at the start of the nearest bookmarked line after the cursor line,
\* or of the first bookmarked line when there is none; previousBookmark does
\* the same backwards; neither throws.
C30_BookmarksInDocument ==
  [][/\ \A l \in bookmarks' : 1 <= l /\ l <= 1 + Cardinality({i \in 1..Len(doc') : doc'[i] = NL})
     /\ \A op \in {"nextBookmark", "previousBookmark"} :
          (last'.op = op /\ selection.head >= 0 /\ bookmarks # {}) =>
            /\ ~last'.threw
            /\ doc' = doc /\ bookmarks' = bookmarks
            /\ selection' = cursorAt(startOfLine(nearestBookmark(op = "nextBookmark")))]_vars

\* after edits that removed lines, nextBookmark has gone from the last
\* bookmark round to an earlier one
C30_Witness ==
  /\ last.op = "nextBookmark" /\ ~last.threw /\ last.dispatched = 1
  /\ Cardinality(bookmarks) >= 2
  /\ headLine \in bookmarks
  /\ \E l \in bookmarks : l > headLine
  /\ Len(doc) < Len(loaded)

==============================================================================
